---- MODULE Spec2Model ----
(***************************************************************************)
(* Model of the AgentCore stack builder (agentcore package): the           *)
(* construction of an AgentCoreStack by NewAgentCoreStack, one action per  *)
(* step of the constructor, and the resource nodes and outputs it emits.   *)
(*                                                                         *)
(* Strings that take part in construct ids are sequences of tokens, so     *)
(* that fmt.Sprintf("Secret-%s-%s", a, b) is the concatenation it is in    *)
(* the code and two ids are equal exactly when their texts are.            *)
(***************************************************************************)
EXTENDS Integers, Sequences, FiniteSets, TLC

\* ------------------------------------------------------------------ bounds
MaxAgents == 2
MaxRetention == 400
MaxNegativeRetention == 2

\* a nil pointer (an optional configuration section that is absent)
None == [nil |-> TRUE]
\* a nil construct handle (s.VPC == nil, s.Secret == nil, ...)
NoId == <<>>

\* ----------------------------------------------------------- basic helpers
Range(f) == {f[x] : x \in DOMAIN f}

RECURSIVE SetToSeq(_)
SetToSeq(S) ==
    IF S = {} THEN <<>>
    ELSE LET x == CHOOSE y \in S : TRUE IN <<x>> \o SetToSeq(S \ {x})

Rotate(q, k) == [i \in 1..Len(q) |-> q[((i + k - 1) % Len(q)) + 1]]
Reverse(q) == [i \in 1..Len(q) |-> q[Len(q) + 1 - i]]

\* The orders in which a Go `range` over a map with key set S may visit the
\* keys.  Go leaves the order unspecified; the orders explored are every
\* rotation of an enumeration of S and of its reverse (all orders for maps
\* of up to three keys).
RangeOrders(S) ==
    IF S = {} THEN {<<>>}
    ELSE LET q == SetToSeq(S) IN
         {Rotate(q, k) : k \in 0..(Len(q) - 1)} \cup
         {Rotate(Reverse(q), k) : k \in 0..(Len(q) - 1)}

\* m[k] = v on a Go map
MapPut(m, k, v) == [x \in (DOMAIN m) \cup {k} |-> IF x = k THEN v ELSE m[x]]

EmptyMap == [x \in {} |-> ""]

\* for _, k := range order { dst[k] = src[k] }
RECURSIVE CopyInto(_, _, _)
CopyInto(dst, src, order) ==
    IF order = <<>> THEN dst
    ELSE CopyInto(MapPut(dst, Head(order), src[Head(order)]), src, Tail(order))

\* fmt.Sprintf over token sequences
Dash == <<"-">>
Sprintf2(prefix, a) == <<prefix>> \o Dash \o a
Sprintf3(prefix, a, b) == <<prefix>> \o Dash \o a \o Dash \o b

\* ------------------------------------------------ configuration (inputs)
ValidMemoryValues == {512, 1024, 2048, 4096, 8192, 16384}
MinTimeout == 1
MaxTimeout == 900
DefaultMemoryMB == 512
DefaultTimeoutSeconds == 30
DefaultMaxAZs == 2
StackName == "demo"

Agent(name, image, mem, timeout, env, secrets, protocol, isDefault) ==
    [Name |-> name, ContainerImage |-> image, Description |-> "",
     MemoryMB |-> mem, TimeoutSeconds |-> timeout, Environment |-> env,
     SecretsARNs |-> secrets, Protocol |-> protocol, IsDefault |-> isDefault]

AgentPool ==
    << Agent(<<"a">>, "img-a", 0, 0, EmptyMap, << <<"b", "-", "c">> >>, "", FALSE),
       Agent(<<"a", "-", "b">>, "img-ab", 1024, 60,
             [k \in {"OBSERVABILITY_PROVIDER", "LOG_LEVEL"} |->
                 IF k = "LOG_LEVEL" THEN "debug" ELSE "mine"],
             << <<"c">> >>, "MCP", TRUE),
       Agent(<<"w">>, "img-w", 2048, 900, [k \in {"LOG_LEVEL"} |-> "info"],
             << <<"s">>, <<"s">> >>, "A2A", TRUE),
       Agent(<<"a">>, "img-a2", 300, 30, EmptyMap, <<>>, "HTTP", FALSE),
       Agent(<<"z">>, "img-z", 512, 30, EmptyMap, <<>>, "HTTP", FALSE) >>

\* non-empty lists of up to MaxAgents agents of the pool, no agent twice
AgentSeqs ==
    UNION {{q \in [1..n -> 1..Len(AgentPool)] :
              \A i, j \in 1..n : i # j => q[i] # q[j]} : n \in 1..MaxAgents}

AgentsOf(q) == [i \in 1..Len(q) |-> AgentPool[q[i]]]

VPCConfig(create, cidr, azs, endpoints, vpcId, sgs) ==
    [CreateVPC |-> create, VPCCidr |-> cidr, MaxAZs |-> azs,
     EnableVPCEndpoints |-> endpoints, VPCID |-> vpcId, SecurityGroupIDs |-> sgs]

VPCOptions ==
    { None,
      VPCConfig(TRUE, "10.1.0.0/16", 3, FALSE, "", <<>>),
      VPCConfig(FALSE, "", 0, FALSE, "vpc-1", <<>>),
      VPCConfig(FALSE, "", 0, FALSE, "vpc-1", <<"sg-1", "sg-2">>),
      VPCConfig(FALSE, "", 0, FALSE, "", <<"sg-1">>),
      VPCConfig(TRUE, "10.2.0.0/16", 0, TRUE, "vpc-1", <<>>) }

SecretsConfig(create, name, values) ==
    [CreateSecrets |-> create, SecretName |-> name, SecretValues |-> values]

SecretsOptions ==
    { None,
      SecretsConfig(TRUE, "", [k \in {"API_KEY"} |-> "v"]),
      SecretsConfig(TRUE, "named", EmptyMap) }

IAMConfig(roleArn, bedrock, models, policies, boundary) ==
    [RoleARN |-> roleArn, EnableBedrockAccess |-> bedrock, BedrockModelIDs |-> models,
     AdditionalPolicies |-> policies, PermissionsBoundaryARN |-> boundary]

IAMOptions ==
    { None,
      IAMConfig("arn:role/ext", FALSE, <<>>, <<>>, ""),
      IAMConfig("", TRUE, <<"m1", "m2">>, <<>>, ""),
      IAMConfig("", FALSE, <<>>, << <<"p1">>, <<"p2">> >>, "arn:boundary") }

ObservabilityConfig(provider, project, endpoint, logs, retention) ==
    [Provider |-> provider, Project |-> project, Endpoint |-> endpoint,
     EnableCloudWatchLogs |-> logs, LogRetentionDays |-> retention]

ObsOpik == ObservabilityConfig("opik", "proj", "", TRUE, 30)

ObservabilityOptions ==
    { None, ObsOpik,
      ObservabilityConfig("langfuse", "proj", "https://lf", FALSE, 10) }

GatewayConfig(enabled, name) == [Enabled |-> enabled, Name |-> name, Description |-> ""]

GatewayOptions == { None, GatewayConfig(FALSE, "gw"), GatewayConfig(TRUE, "gw") }

StackConfig(agents, vpc, secrets, iam, obs, gw) ==
    [StackName |-> StackName, Description |-> "", Agents |-> agents, VPC |-> vpc,
     Secrets |-> secrets, IAM |-> iam, Observability |-> obs, Gateway |-> gw,
     Tags |-> [k \in {"Environment", "Team"} |->
                 IF k = "Team" THEN "agents" ELSE "production"], RemovalPolicy |-> ""]

\* the configurations a caller may hand to NewAgentCoreStack
AgentFamily ==
    {StackConfig(AgentsOf(q), None, sec, None, obs, gw) :
        q \in AgentSeqs, sec \in {None, SecretsConfig(TRUE, "", [k \in {"API_KEY"} |-> "v"])},
        obs \in {None, ObsOpik}, gw \in {None, GatewayConfig(TRUE, "gw")}}

StackFamily ==
    {StackConfig(AgentsOf(q), vpc, sec, iam, obs, gw) :
        q \in {<<5>>, <<2, 5>>}, vpc \in VPCOptions, sec \in SecretsOptions, iam \in IAMOptions,
        obs \in ObservabilityOptions, gw \in GatewayOptions}

RetentionFamily ==
    {StackConfig(AgentsOf(<<5>>), None, None, None,
                 ObservabilityConfig("cloudwatch", "", "", TRUE, r), None) :
        r \in (0 - MaxNegativeRetention)..MaxRetention}

\* one HTTP agent "worker", a network to create with the default CIDR, no
\* secrets, no observability, no gateway
WorkerAgent == Agent(<<"worker">>, "repo/worker:v1", 0, 0, EmptyMap, <<>>, "HTTP", TRUE)

WorkerConfig ==
    StackConfig(<<WorkerAgent>>, VPCConfig(TRUE, "", 0, TRUE, "", <<>>),
                None, None, None, None)

Configs == AgentFamily \cup StackFamily \cup RetentionFamily \cup {WorkerConfig}


\* ------------------------------------------- iac.ApplyDefaults / Validate
DefaultVPCConfig == VPCConfig(TRUE, "10.0.0.0/16", DefaultMaxAZs, TRUE, "", <<>>)
DefaultIAMConfig == IAMConfig("", TRUE, <<>>, <<>>, "")

ApplyAgentDefaults(a) ==
    [a EXCEPT !.MemoryMB = IF @ = 0 THEN DefaultMemoryMB ELSE @,
              !.TimeoutSeconds = IF @ = 0 THEN DefaultTimeoutSeconds ELSE @,
              !.Protocol = IF @ = "" THEN "HTTP" ELSE @]

ApplyVPCDefaults(v) ==
    IF v = None THEN DefaultVPCConfig
    ELSE IF v.VPCID # "" THEN v
    ELSE [v EXCEPT !.VPCCidr = IF @ = "" THEN "10.0.0.0/16" ELSE @,
                   !.MaxAZs = IF @ = 0 THEN DefaultMaxAZs ELSE @]

ApplyObservabilityDefaults(o) ==
    IF o = None THEN None
    ELSE [o EXCEPT !.Project = IF @ = "" THEN StackName ELSE @]

ApplyDefaults(c) ==
    [c EXCEPT !.Agents = [i \in 1..Len(c.Agents) |-> ApplyAgentDefaults(c.Agents[i])],
              !.VPC = ApplyVPCDefaults(@),
              !.IAM = IF @ = None THEN DefaultIAMConfig ELSE @,
              !.Observability = ApplyObservabilityDefaults(@),
              !.RemovalPolicy = IF @ = "" THEN "destroy" ELSE @]

ValidAgent(a) ==
    /\ a.Name # <<>>
    /\ a.ContainerImage # ""
    /\ a.MemoryMB \in ValidMemoryValues
    /\ a.TimeoutSeconds >= MinTimeout
    /\ a.TimeoutSeconds <= MaxTimeout

\* a network that names an existing VPC and also carries creation fields
MixedVPCModes(v) == v.VPCID # "" /\ (v.VPCCidr # "" \/ v.MaxAZs # 0)

\* TRUE when config.Validate() returns no error
Validate(c) ==
    /\ c.StackName # ""
    /\ Len(c.Agents) >= 1
    /\ \A i \in 1..Len(c.Agents) : ValidAgent(c.Agents[i])
    /\ \A i, j \in 1..Len(c.Agents) : i # j => c.Agents[i].Name # c.Agents[j].Name
    /\ Cardinality({i \in 1..Len(c.Agents) : c.Agents[i].IsDefault}) <= 1
    /\ ~MixedVPCModes(c.VPC)

\* ------------------------------------------------------------------ state
VARIABLES
    s,          \* the AgentCoreStack under construction (its Go fields)
    nodes,      \* the constructs added to the stack, in emission order
    outputs,    \* the CfnOutputs added to the stack, in emission order
    pc,         \* position in NewAgentCoreStack
    agentIdx,   \* index of the `for _, agentConfig := range config.Agents` loop
    prev,       \* the result of the previous build of this caller, or None
    edit        \* how the configuration was changed before the current build

vars == <<s, nodes, outputs, pc, agentIdx, prev, edit>>

\* the command-line tools cmd/deploy and cmd/push-secrets
VARIABLES
    opts,       \* one run of a tool: flags, arguments, process environment, files
    tpc,        \* position in the tool's main / run
    locals,     \* the local variables of main / run
    calls,      \* the external calls issued so far, each with its outcome
    exitCode    \* the exit code of the process, NoExit while it runs

toolVars == <<opts, tpc, locals, calls, exitCode>>

\* NewCfnIncludeStack and the CfnIncludeBuilder
VARIABLES
    builder,    \* the CfnIncludeConfig being put together by the caller
    included    \* the CfnIncludeStack returned to the caller, or None

includeVars == <<builder, included>>

NoExit == 0 - 1

\* the tools, and the CfnInclude caller, while they do not run
ToolsIdle ==
    /\ opts = None
    /\ tpc = "idle"
    /\ locals = None
    /\ calls = <<>>
    /\ exitCode = NoExit


Node(kind, id, props, deps) == [kind |-> kind, id |-> id, props |-> props, dependsOn |-> deps]
Output(id, value) == [id |-> id, value |-> value]
\* a token such as runtime.AttrAgentRuntimeId(): attribute attr of construct id
Attr(id, attr) == [ref |-> id, attr |-> attr]

\* the string CDK hands out for an attribute where a *string is expected
Token(id, attr) == <<"${Token[">> \o id \o <<".", attr, "]}">>
TokenRef(token) == SubSeq(token, 2, Len(token) - 3)

\* NewAgentCoreStack, lines 607-613
NewStack(config) ==
    [Config |-> config, VPC |-> NoId, SecurityGroup |-> NoId, ExecutionRole |-> NoId,
     Secret |-> NoId, LogGroup |-> NoId, Gateway |-> NoId,
     Agents |-> <<>>, Runtimes |-> <<>>, Endpoints |-> <<>>]

\* the calls with createLogGroup ahead of createIAMRole
StepOrderLogGroupFirst ==
    <<"createVPC", "createSecurityGroup", "createSecrets", "createLogGroup",
      "createIAMRole", "createAgent", "createGateway", "addOutputs", "done">>

\* the order of the calls in NewAgentCoreStack
StepOrder ==
    <<"createVPC", "createSecurityGroup", "createSecrets", "createIAMRole",
      "createLogGroup", "createAgent", "createGateway", "addOutputs", "done">>

StepIndex(step) == CHOOSE i \in 1..Len(StepOrder) : StepOrder[i] = step
StepAfter(step) == StepOrder[StepIndex(step) + 1]

Init ==
    /\ \E c \in Configs : s = NewStack(c)
    /\ nodes = <<>>
    /\ outputs = <<>>
    /\ pc = "validate"
    /\ agentIdx = 1
    /\ prev = None
    /\ edit = [kind |-> "none"]
    /\ ToolsIdle
    /\ builder = None
    /\ included = None

\* the build goes on whatever config.Validate() returned
AfterValidationIgnoringError(valid) == StepOrder[1]

\* if err := config.Validate(); err != nil { panic(...) }
AfterValidation(valid) == IF valid THEN StepOrder[1] ELSE "panic"

\* NewAgentCoreStack, lines 594-598: defaults, validation, panic on error
ValidateConfig ==
    /\ pc = "validate"
    /\ LET c == ApplyDefaults(s.Config) IN
       /\ s' = [s EXCEPT !.Config = c]
       /\ pc' = AfterValidation(Validate(c))
    /\ UNCHANGED <<nodes, outputs, agentIdx, prev, edit>>
    /\ UNCHANGED <<toolVars, includeVars>>


\* ---------------------------------------------------------------- createVPC
VPCId == <<"VPC">>

VPCEndpointNames ==
    <<"BedrockEndpoint", "BedrockRuntimeEndpoint", "SecretsManagerEndpoint",
      "LogsEndpoint", "EcrApiEndpoint", "EcrDkrEndpoint", "S3Endpoint">>

\* endpoints that do not refer to the VPC
createVPCEndpointsDetached(vpc) ==
    [i \in 1..Len(VPCEndpointNames) |->
        Node("VpcEndpoint", vpc \o <<"/", VPCEndpointNames[i]>>,
             [Service |-> VPCEndpointNames[i]], {})]

\* createVPCEndpoints: the endpoints are children of the VPC construct
createVPCEndpoints(vpc) ==
    [i \in 1..Len(VPCEndpointNames) |->
        Node("VpcEndpoint", vpc \o <<"/", VPCEndpointNames[i]>>,
             [Service |-> VPCEndpointNames[i]], {vpc})]

createVPCNodes(c) ==
    IF c.VPC.VPCID # ""
    THEN << Node("Network", VPCId, [Mode |-> "import", VpcId |-> c.VPC.VPCID], {}) >>
    ELSE IF c.VPC.CreateVPC
    THEN << Node("Network", VPCId,
                 [Mode |-> "create", VpcName |-> <<c.StackName, "-vpc">>,
                  Cidr |-> c.VPC.VPCCidr, MaxAzs |-> c.VPC.MaxAZs, NatGateways |-> 1],
                 {}) >>
         \o (IF c.VPC.EnableVPCEndpoints THEN createVPCEndpoints(VPCId) ELSE <<>>)
    ELSE <<>>

createVPC ==
    /\ pc = "createVPC"
    /\ LET emitted == createVPCNodes(s.Config) IN
       /\ nodes' = nodes \o emitted
       /\ s' = [s EXCEPT !.VPC = IF emitted = <<>> THEN NoId ELSE VPCId]
    /\ pc' = StepAfter("createVPC")
    /\ UNCHANGED <<outputs, agentIdx, prev, edit>>
    /\ UNCHANGED <<toolVars, includeVars>>

\* ------------------------------------------------------ createSecurityGroup
SecurityGroupId == <<"SecurityGroup">>

\* a security group created outside any VPC
VpcDepsNone(vpc) == {}

\* Vpc: s.VPC in the SecurityGroupProps
VpcDeps(vpc) == IF vpc = NoId THEN {} ELSE {vpc}

createSecurityGroupNode(st) ==
    IF Len(st.Config.VPC.SecurityGroupIDs) > 0
    THEN Node("SecurityBoundary", SecurityGroupId,
              [Mode |-> "import", SecurityGroupId |-> st.Config.VPC.SecurityGroupIDs[1]], {})
    ELSE Node("SecurityBoundary", SecurityGroupId,
              [Mode |-> "create", Vpc |-> st.VPC,
               SecurityGroupName |-> <<st.Config.StackName, "-sg">>,
               AllowAllOutbound |-> TRUE,
               Ingress |-> << [Peer |-> SecurityGroupId, Port |-> "AllTraffic"] >>],
              VpcDeps(st.VPC))

createSecurityGroup ==
    /\ pc = "createSecurityGroup"
    /\ nodes' = Append(nodes, createSecurityGroupNode(s))
    /\ s' = [s EXCEPT !.SecurityGroup = SecurityGroupId]
    /\ pc' = StepAfter("createSecurityGroup")
    /\ UNCHANGED <<outputs, agentIdx, prev, edit>>
    /\ UNCHANGED <<toolVars, includeVars>>

\* ------------------------------------------------------------ createSecrets
SecretsId == <<"Secrets">>

SecretsEmitted(c) ==
    /\ c.Secrets # None
    /\ c.Secrets.CreateSecrets
    /\ Cardinality(DOMAIN c.Secrets.SecretValues) > 0

createSecretsNode(c) ==
    Node("SecretStore", SecretsId,
         [SecretName |-> IF c.Secrets.SecretName = ""
                         THEN <<c.StackName, "-secrets">>
                         ELSE <<c.Secrets.SecretName>>,
          SecretObjectValue |-> EmptyMap],
         {})

createSecrets ==
    /\ pc = "createSecrets"
    /\ IF SecretsEmitted(s.Config)
       THEN /\ nodes' = Append(nodes, createSecretsNode(s.Config))
            /\ s' = [s EXCEPT !.Secret = SecretsId]
       ELSE UNCHANGED <<nodes, s>>
    /\ pc' = StepAfter("createSecrets")
    /\ UNCHANGED <<outputs, agentIdx, prev, edit>>
    /\ UNCHANGED <<toolVars, includeVars>>

\* ------------------------------------------------------------ createIAMRole
ExecutionRoleId == <<"ExecutionRole">>
PermissionsBoundaryId == <<"PermissionsBoundary">>

Statement(actions, resources) == [Effect |-> "Allow", Actions |-> actions, Resources |-> resources]

ModelArn(modelID) == <<"arn:aws:bedrock:*:*:foundation-model/", modelID>>

\* a statement of its own for every listed model
BedrockStatementsPerModel(iam) ==
    IF ~iam.EnableBedrockAccess THEN <<>>
    ELSE IF Len(iam.BedrockModelIDs) > 0
    THEN [i \in 1..Len(iam.BedrockModelIDs) |->
            Statement("bedrock:InvokeModel", << ModelArn(iam.BedrockModelIDs[i]) >>)]
    ELSE << Statement("bedrock:InvokeModel", << ModelArn("*") >>) >>

BedrockStatements(iam) ==
    IF ~iam.EnableBedrockAccess THEN <<>>
    ELSE IF Len(iam.BedrockModelIDs) > 0
    THEN << Statement("bedrock:InvokeModel",
                      [i \in 1..Len(iam.BedrockModelIDs) |-> ModelArn(iam.BedrockModelIDs[i])]) >>
    ELSE << Statement("bedrock:InvokeModel", << ModelArn("*") >>) >>

LogsStatement == Statement("logs:PutLogEvents", << "arn:aws:logs:*:*:*" >>)
EcrStatement == Statement("ecr:BatchGetImage", << "*" >>)

\* the grant decided from the configuration instead of from s.Secret
SecretGrantStatementsFromConfig(secret, c) ==
    IF c.Secrets # None /\ c.Secrets.CreateSecrets
    THEN << Statement("secretsmanager:GetSecretValue", << Token(<<"Secrets">>, "SecretArn") >>) >>
    ELSE <<>>

\* if s.Secret != nil { s.Secret.GrantRead(role, nil) }
SecretGrantStatements(secret, c) ==
    IF secret # NoId
    THEN << Statement("secretsmanager:GetSecretValue", << Token(secret, "SecretArn") >>) >>
    ELSE <<>>

RECURSIVE AgentSecretPairs(_)

\* the secrets of the first agent only
AgentSecretPairsOfFirstAgent(agents) ==
    IF agents = <<>> THEN <<>>
    ELSE [i \in 1..Len(Head(agents).SecretsARNs) |->
             [agent |-> Head(agents).Name, arn |-> Head(agents).SecretsARNs[i]]]

\* for _, agent := range Agents { for _, secretARN := range agent.SecretsARNs {...} }
AgentSecretPairs(agents) ==
    IF agents = <<>> THEN <<>>
    ELSE [i \in 1..Len(Head(agents).SecretsARNs) |->
             [agent |-> Head(agents).Name, arn |-> Head(agents).SecretsARNs[i]]]
         \o AgentSecretPairs(Tail(agents))

SecretImportId(agentName, secretARN) == Sprintf3("Secret", agentName, secretARN)
PolicyImportId(policyARN) == Sprintf2("Policy", policyARN)

createIAMRoleNodes(st) ==
    LET c == st.Config
        iam == c.IAM
    IN IF iam.RoleARN # ""
       THEN << Node("Identity", ExecutionRoleId,
                    [Mode |-> "import", RoleArn |-> iam.RoleARN, Statements |-> <<>>,
                     ManagedPolicies |-> <<>>, PermissionsBoundary |-> ""], {}) >>
       ELSE LET pairs == AgentSecretPairs(c.Agents)
                grant == SecretGrantStatements(st.Secret, c)
                stmts == BedrockStatements(iam)
                         \o << LogsStatement >>
                         \o grant
                         \o [i \in 1..Len(pairs) |->
                               Statement("secretsmanager:GetSecretValue", << pairs[i].arn >>)]
                         \o << EcrStatement >>
            IN << Node("Identity", ExecutionRoleId,
                       [Mode |-> "create", RoleName |-> <<c.StackName, "-execution-role">>,
                        Statements |-> stmts,
                        ManagedPolicies |-> iam.AdditionalPolicies,
                        PermissionsBoundary |-> iam.PermissionsBoundaryARN],
                       {TokenRef(g.Resources[1]) : g \in Range(grant)}) >>
               \o [i \in 1..Len(pairs) |->
                     Node("SecretRef", SecretImportId(pairs[i].agent, pairs[i].arn),
                          [SecretArn |-> pairs[i].arn], {})]
               \o [i \in 1..Len(iam.AdditionalPolicies) |->
                     Node("PolicyRef", PolicyImportId(iam.AdditionalPolicies[i]),
                          [PolicyArn |-> iam.AdditionalPolicies[i]], {})]
               \o (IF iam.PermissionsBoundaryARN # ""
                   THEN << Node("PolicyRef", PermissionsBoundaryId,
                                [PolicyArn |-> <<iam.PermissionsBoundaryARN>>], {}) >>
                   ELSE <<>>)

createIAMRole ==
    /\ pc = "createIAMRole"
    /\ nodes' = nodes \o createIAMRoleNodes(s)
    /\ s' = [s EXCEPT !.ExecutionRole = ExecutionRoleId]
    /\ pc' = StepAfter("createIAMRole")
    /\ UNCHANGED <<outputs, agentIdx, prev, edit>>
    /\ UNCHANGED <<toolVars, includeVars>>

\* ----------------------------------------------------------- createLogGroup
LogGroupId == <<"LogGroup">>
DefaultLogRetentionDays == 30

\* the requested value without the default for 0
RequestedRetentionDays(requested) == requested

\* retentionDays := LogRetentionDays; if retentionDays == 0 { retentionDays = 30 }
EffectiveRetentionDays(requested) ==
    IF requested = 0 THEN DefaultLogRetentionDays ELSE requested

\* the switch with strict comparisons
RetentionForStrict(retentionDays) ==
    CASE retentionDays < 1 -> "ONE_DAY"
      [] retentionDays >= 1 /\ retentionDays < 7 -> "ONE_WEEK"
      [] retentionDays >= 7 /\ retentionDays < 14 -> "TWO_WEEKS"
      [] retentionDays >= 14 /\ retentionDays < 30 -> "ONE_MONTH"
      [] retentionDays >= 30 /\ retentionDays < 90 -> "THREE_MONTHS"
      [] retentionDays >= 90 /\ retentionDays < 180 -> "SIX_MONTHS"
      [] retentionDays >= 180 /\ retentionDays < 365 -> "ONE_YEAR"
      [] OTHER -> "INFINITE"

\* the switch of createLogGroup
RetentionFor(retentionDays) ==
    CASE retentionDays <= 1 -> "ONE_DAY"
      [] retentionDays > 1 /\ retentionDays <= 7 -> "ONE_WEEK"
      [] retentionDays > 7 /\ retentionDays <= 14 -> "TWO_WEEKS"
      [] retentionDays > 14 /\ retentionDays <= 30 -> "ONE_MONTH"
      [] retentionDays > 30 /\ retentionDays <= 90 -> "THREE_MONTHS"
      [] retentionDays > 90 /\ retentionDays <= 180 -> "SIX_MONTHS"
      [] retentionDays > 180 /\ retentionDays <= 365 -> "ONE_YEAR"
      [] OTHER -> "INFINITE"

LogGroupEmitted(c) == c.Observability # None /\ c.Observability.EnableCloudWatchLogs

createLogGroupNode(c) ==
    Node("LogSink", LogGroupId,
         [LogGroupName |-> <<"/aws/agentcore/", c.StackName>>,
          Retention |-> RetentionFor(EffectiveRetentionDays(c.Observability.LogRetentionDays)),
          RemovalPolicy |-> IF c.RemovalPolicy = "retain" THEN "RETAIN" ELSE "DESTROY"],
         {})

createLogGroup ==
    /\ pc = "createLogGroup"
    /\ IF LogGroupEmitted(s.Config)
       THEN /\ nodes' = Append(nodes, createLogGroupNode(s.Config))
            /\ s' = [s EXCEPT !.LogGroup = LogGroupId]
       ELSE UNCHANGED <<nodes, s>>
    /\ pc' = StepAfter("createLogGroup")
    /\ UNCHANGED <<outputs, agentIdx, prev, edit>>
    /\ UNCHANGED <<toolVars, includeVars>>


\* -------------------------------------------------------------- createAgent
AgentConstructId(name) == Sprintf2("Agent", name)
RuntimeId(name) == Sprintf2("Runtime", name)
EndpointId(name) == Sprintf2("Endpoint", name)

ObservabilityKeys ==
    {"OBSERVABILITY_ENABLED", "OBSERVABILITY_PROVIDER", "OBSERVABILITY_PROJECT",
     "OBSERVABILITY_ENDPOINT"}

\* observability variables that leave a key the agent already set alone
AddObservabilityVarsKeepExisting(envVars, o) ==
    IF o = None THEN envVars
    ELSE LET put(e, k, v) == IF k \in DOMAIN e THEN e ELSE MapPut(e, k, v)
             e1 == put(envVars, "OBSERVABILITY_ENABLED", "true")
             e2 == put(e1, "OBSERVABILITY_PROVIDER", o.Provider)
             e3 == put(e2, "OBSERVABILITY_PROJECT", o.Project)
         IN IF o.Endpoint # "" THEN put(e3, "OBSERVABILITY_ENDPOINT", o.Endpoint) ELSE e3

\* createAgent, lines 944-952
AddObservabilityVars(envVars, o) ==
    IF o = None THEN envVars
    ELSE LET e1 == MapPut(envVars, "OBSERVABILITY_ENABLED", "true")
             e2 == MapPut(e1, "OBSERVABILITY_PROVIDER", o.Provider)
             e3 == MapPut(e2, "OBSERVABILITY_PROJECT", o.Project)
         IN IF o.Endpoint # "" THEN MapPut(e3, "OBSERVABILITY_ENDPOINT", o.Endpoint) ELSE e3

\* createAgent, lines 954-958
AddAgentCoreVars(envVars, config) ==
    LET e1 == MapPut(envVars, "AGENTCORE_AGENT_NAME", config.Name)
    IN IF config.IsDefault THEN MapPut(e1, "AGENTCORE_DEFAULT_AGENT", config.Name) ELSE e1

\* createAgent, lines 938-958: the environment of one agent's runtime
BuildEnvVars(st, config, order) ==
    AddAgentCoreVars(
        AddObservabilityVars(CopyInto(EmptyMap, config.Environment, order),
                             st.Config.Observability),
        config)

\* createAgentRuntime, lines 974-978
cfnEnvVars(envVars, order) == CopyInto(EmptyMap, envVars, order)

getProtocol(config) == IF config.Protocol # "" THEN config.Protocol ELSE "HTTP"

\* tags that also record the agent's timeout
getTagsWithTimeout(st, config, order) ==
    MapPut(MapPut(CopyInto(EmptyMap, st.Config.Tags, order), "Agent", config.Name),
           "Timeout", config.TimeoutSeconds)

getTags(st, config, order) ==
    MapPut(CopyInto(EmptyMap, st.Config.Tags, order), "Agent", config.Name)

\* the stack tags as a list of pairs in the order the range visited them
getStackTagsInRangeOrder(st, order) ==
    [i \in 1..Len(order) |-> <<order[i], st.Config.Tags[order[i]]>>]

getStackTags(st, order) == CopyInto(EmptyMap, st.Config.Tags, order)

getPrivateSubnetIds(st) ==
    IF st.VPC = NoId THEN <<>> ELSE << Attr(st.VPC, "PrivateSubnets") >>

getSecurityGroupIds(st) ==
    IF st.SecurityGroup = NoId THEN <<>> ELSE << Attr(st.SecurityGroup, "SecurityGroupId") >>

\* createAgentRuntime, lines 1007-1013
LifecycleConfiguration(config) ==
    IF config.TimeoutSeconds > 0 \/ config.MemoryMB > 0
    THEN << [MaxLifetime |-> IF config.TimeoutSeconds > 0
                             THEN <<config.TimeoutSeconds>> ELSE <<>>] >>
    ELSE <<>>

RefIds(attrs) == {attrs[i].ref : i \in 1..Len(attrs)}

createAgentRuntimeNode(st, config, envVars, envOrder, tagOrder) ==
    LET role == Attr(st.ExecutionRole, "RoleArn")
        sgs == getSecurityGroupIds(st)
        subnets == getPrivateSubnetIds(st)
    IN Node("Runtime", RuntimeId(config.Name),
            [AgentRuntimeName |-> config.Name,
             RoleArn |-> role,
             Description |-> config.Description,
             ContainerUri |-> config.ContainerImage,
             NetworkMode |-> "VPC",
             SecurityGroups |-> sgs,
             Subnets |-> subnets,
             EnvironmentVariables |-> cfnEnvVars(envVars, envOrder),
             ProtocolConfiguration |-> getProtocol(config),
             Tags |-> getTags(st, config, tagOrder),
             LifecycleConfiguration |-> LifecycleConfiguration(config)],
            {role.ref} \cup RefIds(sgs) \cup RefIds(subnets))

\* the runtime of the first agent, whatever agent the endpoint is for
RuntimeOfFirstAgent(st, config) == st.Runtimes[st.Config.Agents[1].Name]

\* runtime := s.Runtimes[config.Name]
RuntimeOf(st, config) == st.Runtimes[config.Name]

createRuntimeEndpointNode(st, config, tagOrder) ==
    LET runtimeId == Attr(RuntimeOf(st, config), "AgentRuntimeId")
    IN Node("Endpoint", EndpointId(config.Name),
            [Name |-> config.Name \o <<"-endpoint">>,
             AgentRuntimeId |-> runtimeId,
             Description |-> <<"Endpoint for agent ">> \o config.Name,
             Tags |-> getTags(st, config, tagOrder)],
            {runtimeId.ref})

AgentOutputId(name, suffix) == <<"Agent", "-">> \o name \o <<"-", suffix>>

\* the image output ahead of the runtime and endpoint outputs
addAgentOutputsImageFirst(st, config) ==
    << Output(AgentOutputId(config.Name, "Image"), <<config.ContainerImage>>),
       Output(AgentOutputId(config.Name, "RuntimeArn"),
              Attr(st.Runtimes[config.Name], "AgentRuntimeArn")),
       Output(AgentOutputId(config.Name, "RuntimeId"),
              Attr(st.Runtimes[config.Name], "AgentRuntimeId")),
       Output(AgentOutputId(config.Name, "EndpointArn"),
              Attr(st.Endpoints[config.Name], "AgentRuntimeEndpointArn")) >>

addAgentOutputs(st, config) ==
    << Output(AgentOutputId(config.Name, "RuntimeArn"),
              Attr(st.Runtimes[config.Name], "AgentRuntimeArn")),
       Output(AgentOutputId(config.Name, "RuntimeId"),
              Attr(st.Runtimes[config.Name], "AgentRuntimeId")),
       Output(AgentOutputId(config.Name, "EndpointArn"),
              Attr(st.Endpoints[config.Name], "AgentRuntimeEndpointArn")),
       Output(AgentOutputId(config.Name, "Image"), <<config.ContainerImage>>) >>

createAgent ==
    /\ pc = "createAgent"
    /\ agentIdx <= Len(s.Config.Agents)
    /\ LET config == s.Config.Agents[agentIdx] IN
       \E o1 \in RangeOrders(DOMAIN config.Environment),
          tagOrder \in RangeOrders(DOMAIN s.Config.Tags) :
         LET envVars == BuildEnvVars(s, config, o1) IN
         \E o2 \in RangeOrders(DOMAIN envVars) :
           LET construct == Node("AgentConstruct", AgentConstructId(config.Name),
                                 [Name |-> config.Name], {})
               runtime == createAgentRuntimeNode(s, config, envVars, o2, tagOrder)
               s1 == [s EXCEPT !.Runtimes = MapPut(@, config.Name, runtime.id)]
               endpoint == createRuntimeEndpointNode(s1, config, tagOrder)
               s2 == [s1 EXCEPT !.Endpoints = MapPut(@, config.Name, endpoint.id)]
           IN /\ nodes' = nodes \o <<construct, runtime, endpoint>>
              /\ outputs' = outputs \o addAgentOutputs(s2, config)
              /\ s' = [s2 EXCEPT !.Agents = MapPut(@, config.Name, construct.id)]
    /\ agentIdx' = agentIdx + 1
    /\ pc' = IF agentIdx = Len(s.Config.Agents) THEN StepAfter("createAgent") ELSE pc
    /\ UNCHANGED <<prev, edit>>
    /\ UNCHANGED <<toolVars, includeVars>>

\* ------------------------------------------------------------ createGateway
GatewayId == <<"Gateway">>

\* a gateway for every gateway section, enabled or not
GatewayEmittedWhenPresent(c) == c.Gateway # None

\* if s.Config.Gateway == nil || !s.Config.Gateway.Enabled { return }
GatewayEmitted(c) == c.Gateway # None /\ c.Gateway.Enabled

\* the protocol type left at its initial value
GatewayProtocolTypeMCP(c) == "MCP"

\* protocolType := "MCP"; the first agent's protocol when it has one
GatewayProtocolType(c) ==
    IF Len(c.Agents) > 0 /\ c.Agents[1].Protocol # "" THEN c.Agents[1].Protocol ELSE "MCP"

createGatewayNode(st, tagOrder) ==
    LET role == Attr(st.ExecutionRole, "RoleArn")
    IN Node("Gateway", GatewayId,
            [Name |-> st.Config.Gateway.Name,
             Description |-> st.Config.Gateway.Description,
             AuthorizerType |-> "NONE",
             ProtocolType |-> GatewayProtocolType(st.Config),
             RoleArn |-> role,
             Tags |-> getStackTags(st, tagOrder)],
            {role.ref})

createGateway ==
    /\ pc = "createGateway"
    /\ IF GatewayEmitted(s.Config)
       THEN \E tagOrder \in RangeOrders(DOMAIN s.Config.Tags) :
              /\ nodes' = Append(nodes, createGatewayNode(s, tagOrder))
              /\ s' = [s EXCEPT !.Gateway = GatewayId]
       ELSE UNCHANGED <<nodes, s>>
    /\ pc' = StepAfter("createGateway")
    /\ UNCHANGED <<outputs, agentIdx, prev, edit>>
    /\ UNCHANGED <<toolVars, includeVars>>

\* --------------------------------------------------------------- addOutputs
addOutputsList(st) ==
    (IF st.VPC # NoId THEN << Output(<<"VPCID">>, Attr(st.VPC, "VpcId")) >> ELSE <<>>)
    \o (IF st.SecurityGroup # NoId
        THEN << Output(<<"SecurityGroupID">>, Attr(st.SecurityGroup, "SecurityGroupId")) >>
        ELSE <<>>)
    \o (IF st.ExecutionRole # NoId
        THEN << Output(<<"ExecutionRoleARN">>, Attr(st.ExecutionRole, "RoleArn")) >>
        ELSE <<>>)
    \o (IF st.LogGroup # NoId
        THEN << Output(<<"LogGroupName">>, Attr(st.LogGroup, "LogGroupName")) >>
        ELSE <<>>)
    \o << Output(<<"AgentCount">>, [count |-> Cardinality(DOMAIN st.Agents)]) >>
    \o (IF st.Gateway # NoId
        THEN << Output(<<"GatewayArn">>, Attr(st.Gateway, "GatewayArn")),
                Output(<<"GatewayId">>, Attr(st.Gateway, "GatewayIdentifier")),
                Output(<<"GatewayUrl">>, Attr(st.Gateway, "GatewayUrl")) >>
        ELSE <<>>)

addOutputs ==
    /\ pc = "addOutputs"
    /\ outputs' = outputs \o addOutputsList(s)
    /\ pc' = StepAfter("addOutputs")
    /\ UNCHANGED <<s, nodes, agentIdx, prev, edit>>
    /\ UNCHANGED <<toolVars, includeVars>>

\* ------------------------------------------ a second build by the same caller
EditTimeouts == {30, 60}
EditMemories == {512, 1024}

Edits(c) ==
    {[kind |-> "same"]}
    \cup {[kind |-> "timeout", agent |-> i, value |-> t] :
            i \in 1..Len(c.Agents), t \in EditTimeouts}
    \cup {[kind |-> "memory", agent |-> i, value |-> m] :
            i \in 1..Len(c.Agents), m \in EditMemories}

\* AgentBuilder.WithTimeout / WithMemory on one agent of the configuration
ApplyEdit(c, e) ==
    CASE e.kind = "timeout" -> [c EXCEPT !.Agents[e.agent].TimeoutSeconds = e.value]
      [] e.kind = "memory" -> [c EXCEPT !.Agents[e.agent].MemoryMB = e.value]
      [] OTHER -> c

\* the caller builds the stack again in a fresh app, from the same
\* configuration or from one that differs in one agent's timeout or memory
Rebuild ==
    /\ pc = "done"
    /\ prev = None
    /\ \E e \in Edits(s.Config) :
         /\ (e.kind = "same" \/ ApplyEdit(s.Config, e) # s.Config)
         /\ edit' = e
         /\ s' = NewStack(ApplyEdit(s.Config, e))
    /\ prev' = [nodes |-> nodes, outputs |-> outputs, config |-> s.Config]
    /\ nodes' = <<>>
    /\ outputs' = <<>>
    /\ pc' = "validate"
    /\ agentIdx' = 1
    /\ UNCHANGED <<toolVars, includeVars>>

Next ==
    \/ ValidateConfig
    \/ createVPC
    \/ createSecurityGroup
    \/ createSecrets
    \/ createIAMRole
    \/ createLogGroup
    \/ createAgent
    \/ createGateway
    \/ addOutputs
    \/ Rebuild

Spec == Init /\ [][Next]_vars


\* =================================================================== claims
NodesOfKind(kind) == {i \in 1..Len(nodes) : nodes[i].kind = kind}

Rebuilt(kind) == pc = "done" /\ prev # None /\ edit.kind = kind

\* C1: building the resource graph twice from the same StackSpec yields the
\* same ordered node list: same nodes, same order, same properties and same
\* dependsOn sets, whatever order the map iterations of the two builds took.
C1_Deterministic == Rebuilt("same") => nodes = prev.nodes

C1_Witness ==
    /\ Rebuilt("same")
    /\ nodes = prev.nodes
    /\ NodesOfKind("Gateway") # {}
    /\ \E i \in NodesOfKind("Runtime") :
          Cardinality(DOMAIN nodes[i].props.EnvironmentVariables) >= 4

\* C2: a StackSpec with N agents yields exactly N Runtime nodes and N Endpoint
\* nodes, one of each per agent, and each Endpoint depends on exactly one
\* Runtime, the one of the agent the Endpoint belongs to.
C2_RuntimeEndpointPerAgent ==
    pc = "done" =>
      LET agents == s.Config.Agents
          runtimes == NodesOfKind("Runtime")
          endpoints == NodesOfKind("Endpoint")
      IN /\ Cardinality(runtimes) = Len(agents)
         /\ Cardinality(endpoints) = Len(agents)
         /\ \A a \in 1..Len(agents) :
              /\ Cardinality({r \in runtimes :
                     nodes[r].props.AgentRuntimeName = agents[a].Name}) = 1
              /\ Cardinality({e \in endpoints :
                     nodes[e].props.Tags["Agent"] = agents[a].Name}) = 1
         /\ \A e \in endpoints :
              LET deps == {r \in runtimes : nodes[r].id \in nodes[e].dependsOn}
              IN /\ Cardinality(deps) = 1
                 /\ Cardinality(nodes[e].dependsOn) = 1
                 /\ \A r \in deps :
                      nodes[r].props.AgentRuntimeName = nodes[e].props.Tags["Agent"]

C2_Witness ==
    /\ pc = "done"
    /\ Len(s.Config.Agents) = 2
    /\ Cardinality(NodesOfKind("Endpoint")) = 2

\* C3: when two StackSpecs differ only in the timeoutSeconds of one agent, the
\* two graphs differ only in the properties of that agent's Runtime node;
\* every other node and every output is the same.
C3_TimeoutFrame ==
    Rebuilt("timeout") =>
      /\ Len(nodes) = Len(prev.nodes)
      /\ outputs = prev.outputs
      /\ \A k \in 1..Len(nodes) :
           nodes[k] # prev.nodes[k] =>
             /\ nodes[k].kind = "Runtime"
             /\ nodes[k].props.AgentRuntimeName = s.Config.Agents[edit.agent].Name
             /\ nodes[k].id = prev.nodes[k].id
             /\ nodes[k].kind = prev.nodes[k].kind
             /\ nodes[k].dependsOn = prev.nodes[k].dependsOn

C3_Witness ==
    /\ Rebuilt("timeout")
    /\ Len(s.Config.Agents) = 2
    /\ \E k \in 1..Len(nodes) : nodes[k] # prev.nodes[k]

\* the stack-level observability variables of a configuration
StackObservabilityVars(c) == AddObservabilityVars(EmptyMap, c.Observability)

AgentCoreKeys == {"AGENTCORE_AGENT_NAME", "AGENTCORE_DEFAULT_AGENT"}

RuntimeNodeOf(name) ==
    nodes[CHOOSE r \in NodesOfKind("Runtime") : nodes[r].props.AgentRuntimeName = name]

\* C4 (as claimed): in each Runtime's environment, a key present both in the
\* agent's environment and among the stack-level observability variables
\* carries the agent-level value.
C4_AgentLevelWins ==
    pc = "done" =>
      \A a \in 1..Len(s.Config.Agents) :
        LET agent == s.Config.Agents[a] IN
        \A k \in (DOMAIN agent.Environment) \cap DOMAIN StackObservabilityVars(s.Config) :
           RuntimeNodeOf(agent.Name).props.EnvironmentVariables[k] = agent.Environment[k]

\* C4 (amended): in each Runtime's environment every stack-level observability
\* variable carries the stack-level value, also when the agent's own
\* environment sets the same key; the agent's other keys keep the agent's value.
C4_StackLevelWins ==
    pc = "done" =>
      \A a \in 1..Len(s.Config.Agents) :
        LET agent == s.Config.Agents[a]
            env == RuntimeNodeOf(agent.Name).props.EnvironmentVariables
            stackVars == StackObservabilityVars(s.Config)
        IN /\ \A k \in DOMAIN stackVars : env[k] = stackVars[k]
           /\ \A k \in (DOMAIN agent.Environment) \ (DOMAIN stackVars \cup AgentCoreKeys) :
                env[k] = agent.Environment[k]

C4_Witness ==
    /\ pc = "done"
    /\ \E a \in 1..Len(s.Config.Agents) :
         LET agent == s.Config.Agents[a] IN
         /\ "OBSERVABILITY_PROVIDER" \in DOMAIN agent.Environment
         /\ s.Config.Observability # None
         /\ agent.Environment["OBSERVABILITY_PROVIDER"] # s.Config.Observability.Provider
         /\ RuntimeNodeOf(agent.Name).props.EnvironmentVariables["OBSERVABILITY_PROVIDER"]
              = s.Config.Observability.Provider

\* C5 (as claimed): each Runtime's properties carry the agent's memoryMB, so
\* two StackSpecs that differ only in one agent's memoryMB give that agent
\* Runtime nodes with different properties.
C5_MemoryCarried ==
    Rebuilt("memory") =>
      \E k \in NodesOfKind("Runtime") :
        /\ nodes[k].props.AgentRuntimeName = s.Config.Agents[edit.agent].Name
        /\ nodes[k].props # prev.nodes[k].props

SupportedTiers == {1, 7, 14, 30, 90, 180, 365}

TierDays(retention) ==
    CASE retention = "ONE_DAY" -> 1
      [] retention = "ONE_WEEK" -> 7
      [] retention = "TWO_WEEKS" -> 14
      [] retention = "ONE_MONTH" -> 30
      [] retention = "THREE_MONTHS" -> 90
      [] retention = "SIX_MONTHS" -> 180
      [] retention = "ONE_YEAR" -> 365

RequestedRetention == s.Config.Observability.LogRetentionDays

\* C6: a LogSink emitted for a requested retention of r >= 1 days carries the
\* smallest supported tier >= r among 1, 7, 14, 30, 90, 180, 365, and
\* unlimited when r > 365.
C6_RetentionRoundUp ==
    \A k \in NodesOfKind("LogSink") :
      RequestedRetention >= 1 =>
        LET atLeast == {t \in SupportedTiers : t >= RequestedRetention}
            retention == nodes[k].props.Retention
        IN IF atLeast = {}
           THEN retention = "INFINITE"
           ELSE /\ retention # "INFINITE"
                /\ TierDays(retention) \in atLeast
                /\ \A t \in atLeast : TierDays(retention) <= t

C6_Witness ==
    \E k \in NodesOfKind("LogSink") :
       /\ nodes[k].props.Retention = "TWO_WEEKS"
       /\ RequestedRetention = 10

C6_WitnessUnlimited ==
    \E k \in NodesOfKind("LogSink") :
       /\ nodes[k].props.Retention = "INFINITE"
       /\ RequestedRetention = 400

\* C7 (as claimed): a requested retention of 0 or of a negative number of days
\* is rejected, no LogSink is produced for such a request.
C7_NonPositiveRejected ==
    \A k \in NodesOfKind("LogSink") : RequestedRetention >= 1

\* C7 (amended): createLogGroup rejects no retention request: for a request
\* of 0 days it emits the LogSink with the 30-day tier (0 means unset) and for
\* a negative request it emits the LogSink with the 1-day tier.
C7_NonPositiveAccepted ==
    (/\ pc \in {"createAgent", "createGateway", "addOutputs", "done"}
     /\ LogGroupEmitted(s.Config)
     /\ RequestedRetention <= 0) =>
       /\ Cardinality(NodesOfKind("LogSink")) = 1
       /\ \A k \in NodesOfKind("LogSink") :
            nodes[k].props.Retention =
               IF RequestedRetention = 0 THEN "ONE_MONTH" ELSE "ONE_DAY"

C7_Witness ==
    /\ pc = "done"
    /\ \E k \in NodesOfKind("LogSink") :
          /\ nodes[k].props.Retention = "ONE_MONTH"
          /\ RequestedRetention = 0

C7_WitnessNegative ==
    /\ pc = "done"
    /\ \E k \in NodesOfKind("LogSink") :
          /\ nodes[k].props.Retention = "ONE_DAY"
          /\ RequestedRetention < 0

\* the step of the build a node of each kind belongs to, by the claimed order
ClaimedStepOfKind(kind) ==
    CASE kind \in {"Network", "VpcEndpoint"} -> 1
      [] kind = "SecurityBoundary" -> 2
      [] kind \in {"Identity", "SecretRef", "PolicyRef"} -> 3
      [] kind = "SecretStore" -> 4
      [] kind = "LogSink" -> 5
      [] kind \in {"AgentConstruct", "Runtime", "Endpoint"} -> 6
      [] kind = "Gateway" -> 7

\* and by the order Network, SecurityBoundary, SecretStore, Identity, ...
EmittedStepOfKind(kind) ==
    CASE kind = "SecretStore" -> 3
      [] kind \in {"Identity", "SecretRef", "PolicyRef"} -> 4
      [] OTHER -> ClaimedStepOfKind(kind)

\* the agents' Runtimes come in StackSpec order, each immediately followed by
\* the Endpoint of the same agent
AgentsInOrder ==
    /\ \A i \in NodesOfKind("Runtime") :
         /\ i + 1 <= Len(nodes) => nodes[i + 1].kind = "Endpoint"
         /\ i + 1 <= Len(nodes) =>
              nodes[i + 1].props.Tags["Agent"] = nodes[i].props.AgentRuntimeName
         /\ LET n == Cardinality({j \in NodesOfKind("Runtime") : j <= i})
            IN nodes[i].props.AgentRuntimeName = s.Config.Agents[n].Name
    /\ \A i \in NodesOfKind("Endpoint") : i > 1 /\ nodes[i - 1].kind = "Runtime"

\* C8 (as claimed): nodes are emitted in the order Network, SecurityBoundary,
\* Identity, SecretStore, LogSink, then per agent Runtime and Endpoint, then
\* Gateway; no node of a later step precedes a node of an earlier step.
C8_ClaimedOrder ==
    /\ \A i, j \in 1..Len(nodes) :
         i < j => ClaimedStepOfKind(nodes[i].kind) <= ClaimedStepOfKind(nodes[j].kind)
    /\ AgentsInOrder

\* C8 (amended): nodes are emitted in the order Network, SecurityBoundary,
\* SecretStore, Identity, LogSink, then for each agent in StackSpec order its
\* Runtime immediately followed by its Endpoint, then Gateway; no node of a
\* later step precedes a node of an earlier step.
C8_EmissionOrder ==
    /\ \A i, j \in 1..Len(nodes) :
         i < j => EmittedStepOfKind(nodes[i].kind) <= EmittedStepOfKind(nodes[j].kind)
    /\ AgentsInOrder

C8_Witness ==
    /\ pc = "done"
    /\ \A kind \in {"Network", "SecurityBoundary", "SecretStore", "Identity", "LogSink",
                    "Runtime", "Endpoint", "Gateway"} : NodesOfKind(kind) # {}
    /\ Len(s.Config.Agents) = 2

\* C9: every dependsOn entry of every node names a node emitted earlier in
\* the same build (so the dependency graph is acyclic), and a created Identity
\* of a stack that creates its SecretStore depends on that SecretStore node,
\* which is already there when the Identity is emitted.
C9_DependsOnEarlier ==
    /\ \A j \in 1..Len(nodes) :
         \A d \in nodes[j].dependsOn : \E i \in 1..(j - 1) : nodes[i].id = d
    /\ \A j \in NodesOfKind("Identity") :
         (nodes[j].props.Mode = "create" /\ SecretsEmitted(s.Config)) =>
            \E i \in 1..(j - 1) :
               /\ nodes[i].kind = "SecretStore"
               /\ nodes[i].id \in nodes[j].dependsOn

C9_Witness ==
    /\ pc = "done"
    /\ \E j \in NodesOfKind("Identity") : nodes[j].dependsOn = {SecretsId}
    /\ \E j \in NodesOfKind("Runtime") : Cardinality(nodes[j].dependsOn) = 3

\* C10 (as claimed): within one built graph all logical ids are pairwise
\* distinct, for every validated StackSpec, the per-secret and per-policy ids
\* included.
C10_DistinctLogicalIds ==
    \A i, j \in 1..Len(nodes) : i # j => nodes[i].id # nodes[j].id

GatewayOutputIds == {<<"GatewayArn">>, <<"GatewayId">>, <<"GatewayUrl">>}

OutputIds == {outputs[i].id : i \in 1..Len(outputs)}

KindOfId(id) == (CHOOSE n \in Range(nodes) : n.id = id).kind

\* C11: a Gateway node exists in the built graph exactly when the
\* configuration has a gateway section with Enabled set; a graph without a
\* Gateway node has no GatewayArn, GatewayId or GatewayUrl output; a Gateway
\* node depends on the Identity node and on nothing else, never on a Runtime
\* or an Endpoint.
C11_GatewayOptional ==
    /\ pc \in {"addOutputs", "done"} =>
         ((NodesOfKind("Gateway") # {})
            <=> (s.Config.Gateway # None /\ s.Config.Gateway.Enabled))
    /\ NodesOfKind("Gateway") = {} => OutputIds \cap GatewayOutputIds = {}
    /\ \A i \in NodesOfKind("Gateway") :
         /\ nodes[i].dependsOn # {}
         /\ \A d \in nodes[i].dependsOn :
              /\ \E j \in 1..(i - 1) : nodes[j].id = d
              /\ KindOfId(d) = "Identity"

C11_Witness ==
    /\ pc = "done"
    /\ NodesOfKind("Gateway") # {}
    /\ GatewayOutputIds \subseteq OutputIds
    /\ NodesOfKind("Runtime") # {}

C11_WitnessDisabled ==
    /\ pc = "done"
    /\ s.Config.Gateway # None
    /\ NodesOfKind("Gateway") = {}
    /\ outputs # <<>>

FirstAgent == s.Config.Agents[1]

C12_WitnessUnset ==
    /\ pc = "done"
    /\ FirstAgent.ContainerImage = AgentPool[1].ContainerImage
    /\ \E g \in NodesOfKind("Gateway") : nodes[g].props.ProtocolType = "HTTP"

IsModelInvoke(st) == st.Actions = "bedrock:InvokeModel"

ModelInvokeStatements(n) == SelectSeq(n.props.Statements, IsModelInvoke)

\* the created Identity nodes of a configuration that asks for model access
CreatedWithModelAccess ==
    {i \in NodesOfKind("Identity") :
        nodes[i].props.Mode = "create" /\ s.Config.IAM.EnableBedrockAccess}

\* C13 (as claimed): with an allow-list of model identifiers the created
\* Identity carries one model-invocation statement per listed identifier,
\* each restricted to that identifier's resource pattern; without an
\* allow-list it carries exactly one wildcard model-invocation statement.
C13_StatementPerModel ==
    \A i \in CreatedWithModelAccess :
        LET models == s.Config.IAM.BedrockModelIDs
            stmts == ModelInvokeStatements(nodes[i])
        IN IF models # <<>>
           THEN /\ Len(stmts) = Len(models)
                /\ \A k \in 1..Len(models) : stmts[k].Resources = << ModelArn(models[k]) >>
           ELSE /\ Len(stmts) = 1
                /\ stmts[1].Resources = << ModelArn("*") >>

\* C13 (amended): with an allow-list of model identifiers the created
\* Identity carries exactly one model-invocation statement, whose resources
\* are the resource patterns of the listed identifiers, one per identifier
\* in list order; without an allow-list it carries exactly one wildcard
\* model-invocation statement.
C13_OneStatementListingModels ==
    \A i \in CreatedWithModelAccess :
        LET models == s.Config.IAM.BedrockModelIDs
            stmts == ModelInvokeStatements(nodes[i])
        IN /\ Len(stmts) = 1
           /\ IF models # <<>>
              THEN /\ Len(stmts[1].Resources) = Len(models)
                   /\ \A k \in 1..Len(models) : stmts[1].Resources[k] = ModelArn(models[k])
              ELSE stmts[1].Resources = << ModelArn("*") >>

C13_Witness ==
    /\ pc = "done"
    /\ \E i \in CreatedWithModelAccess :
         /\ Len(s.Config.IAM.BedrockModelIDs) = 2
         /\ Len(ModelInvokeStatements(nodes[i])[1].Resources) = 2

C13_WitnessWildcard ==
    /\ pc = "done"
    /\ \E i \in CreatedWithModelAccess :
         /\ s.Config.IAM.BedrockModelIDs = <<>>
         /\ ModelInvokeStatements(nodes[i]) # <<>>

\* TRUE when the statement lets the role read exactly the secret arn
ReadsSecret(st, arn) ==
    /\ st.Actions = "secretsmanager:GetSecretValue"
    /\ st.Resources = << arn >>

C14_WitnessExternalRole ==
    /\ pc = "done"
    /\ \E a \in 1..Len(s.Config.Agents) : s.Config.Agents[a].SecretsARNs # <<>>
    /\ \E i \in NodesOfKind("Identity") : nodes[i].props.Mode = "import"

ResourceKinds ==
    {"Network", "SecurityBoundary", "SecretStore", "Identity", "LogSink",
     "Runtime", "Endpoint", "Gateway"}

IsResourceNode(n) == n.kind \in ResourceKinds

\* the resource nodes of the graph in emission order, without the children
\* of the Network construct and the per-agent scoping constructs
ResourceNodes == SelectSeq(nodes, IsResourceNode)

WorkerBuilt == pc = "done" /\ s.Config = ApplyDefaults(WorkerConfig)

Returned == pc = "done"
Failed == pc = "panic"

C16_WitnessReturned ==
    /\ Returned
    /\ Len(s.Config.Agents) = 2
    /\ NodesOfKind("Gateway") # {}

StackLevelOutputOrder ==
    << <<"VPCID">>, <<"SecurityGroupID">>, <<"ExecutionRoleARN">>, <<"LogGroupName">>,
       <<"AgentCount">> >>

GatewayOutputOrder == << <<"GatewayArn">>, <<"GatewayId">>, <<"GatewayUrl">> >>

AgentOutputSuffixes == <<"RuntimeArn", "RuntimeId", "EndpointArn", "Image">>

IsStackLevelOutput(o) == o.id \in Range(StackLevelOutputOrder)
IsGatewayOutput(o) == o.id \in GatewayOutputIds
IsAgentOutput(o) == ~IsStackLevelOutput(o) /\ ~IsGatewayOutput(o)

OutputIdSeq == [i \in 1..Len(outputs) |-> outputs[i].id]

DefaultMarker == "AGENTCORE_DEFAULT_AGENT"

\* the Runtime nodes whose environment carries the default-agent marker
MarkedRuntimes ==
    {r \in NodesOfKind("Runtime") :
        DefaultMarker \in DOMAIN nodes[r].props.EnvironmentVariables}

\* C18: in every built graph exactly one agent is the default one, the agent
\* marked IsDefault or, when no agent is marked, the first agent of the
\* stack; exactly one Runtime carries the default-agent marker in its
\* environment, and it is the Runtime of that agent.
C18_ExactlyOneDefault ==
    pc = "done" =>
      LET agents == s.Config.Agents
          marked == {i \in 1..Len(agents) : agents[i].IsDefault}
          default == IF marked # {} THEN CHOOSE i \in marked : TRUE ELSE 1
      IN /\ Cardinality(MarkedRuntimes) = 1
         /\ \A r \in MarkedRuntimes :
              nodes[r].props.AgentRuntimeName = agents[default].Name

PastNetworkStep == pc \notin {"validate", "panic", "createVPC"}

C19_WitnessReference ==
    /\ pc = "done"
    /\ \E n \in NodesOfKind("Network") : nodes[n].props.Mode = "import"

C19_WitnessNoNetwork ==
    /\ pc = "done"
    /\ NodesOfKind("Network") = {}
    /\ NodesOfKind("Runtime") # {}

\* the configuration names an existing VPC and also gives a CIDR block
BothNetworkModes ==
    /\ s.Config.VPC # None
    /\ s.Config.VPC.VPCID # ""
    /\ s.Config.VPC.VPCCidr # ""

MaxLines == 2

DefaultConfigDir == ".plexusone"

\* a line of an env file; the value is the text after `=`, cut in pieces
Line(kind, key, value) == [kind |-> kind, key |-> key, value |-> value]

LinePool ==
    << Line("assign", "OPENAI_API_KEY", <<"sk-1">>),
       Line("assign", "SERPER_API_KEY", <<"\"", "k-2", "\"">>),
       Line("export", "LLM_MODEL", <<"gpt">>),
       Line("assign", "UNKNOWN_FLAG", <<"1">>),
       Line("assign", "OPENAI_API_KEY", <<"'", "your-", "key", "'">>),
       Line("assign", "SERPER_API_KEY", <<"\"", "\"">>),
       Line("comment", "LLM_MODEL", <<"x">>),
       Line("nomatch", "LLM_PROVIDER", <<"openai">>),
       Line("assign", "OPENAI_API_KEY", <<"sk-2">>) >>

\* the file made of the lines q of the pool
ContentOf(q) == [i \in 1..Len(q) |-> LinePool[q[i]]]

\* the files a run finds; paths are sequences of components
FileSets ==
    { {}, {<<".env">>}, {<<"..", ".env">>}, {<<"~", DefaultConfigDir, ".env">>},
      {<<"custom.env">>}, {<<"..", "custom.env">>},
      {<<"/", "etc", "custom.env">>, <<"~", DefaultConfigDir, ".env">>} }

\* a variable the environment could carry a prefix in
PrefixEnvVar == "SECRET_PREFIX"

\* the process environment; a variable that is not set reads as ""
Environ(awsRegion, awsDefaultRegion, secretPrefix) ==
    [n \in {"AWS_REGION", "AWS_DEFAULT_REGION", PrefixEnvVar} |->
        IF n = "AWS_REGION" THEN awsRegion
        ELSE IF n = "AWS_DEFAULT_REGION" THEN awsDefaultRegion ELSE secretPrefix]

\* one run of a tool: the flags (a string flag left out is "", the prefix
\* flag is <<>> when left out), the positional arguments, the process
\* environment and the files the run finds
Run(tool, region, prefix, envFile, args, dry, skipS, skipB, env, files, readable, content) ==
    [tool |-> tool, region |-> region, prefix |-> prefix, envFile |-> envFile,
     args |-> args, project |-> "", dryRun |-> dry, skipSecrets |-> skipS,
     skipBootstrap |-> skipB, env |-> env, files |-> files,
     readable |-> readable, content |-> content]

\* runs that differ in flags and environment, runs of the deploy pipeline,
\* runs of push-secrets, and runs over every file of at most MaxLines lines
Runs ==
    {Run(tool, region, prefix, <<>>, <<>>, TRUE, FALSE, FALSE, Environ(r1, r2, p),
         {<<".env">>}, TRUE, ContentOf(<<1, 2, 3, 4>>)) :
        tool \in {"deploy", "push-secrets"}, region \in {"", "eu-west-1"},
        prefix \in {<<>>, <<"">>, <<"myapp">>}, r1 \in {"", "us-west-2"},
        r2 \in {"", "ap-south-1"}, p \in {"", "fromenv"}}
    \cup
    {Run("deploy", "", <<>>, envFile, <<>>, dry, skipS, skipB, Environ("", "", ""),
         files, readable, content) :
        envFile \in {<<>>, <<"custom.env">>, <<"/", "etc", "custom.env">>},
        dry \in BOOLEAN, skipS \in BOOLEAN, skipB \in BOOLEAN, files \in FileSets,
        readable \in BOOLEAN,
        content \in {<<>>, ContentOf(<<1>>), ContentOf(<<2, 3>>), ContentOf(<<1, 2, 3, 4>>)}}
    \cup
    {Run("push-secrets", "", <<>>, <<>>, args, dry, FALSE, FALSE, Environ("", "", ""),
         files, readable, content) :
        args \in {<<>>, << <<"custom.env">> >>}, dry \in BOOLEAN, files \in FileSets,
        readable \in BOOLEAN,
        content \in {<<>>, ContentOf(<<1>>), ContentOf(<<2, 3>>), ContentOf(<<1, 2, 3, 4>>)}}
    \cup
    {Run(tool, "", <<>>, <<>>, <<>>, TRUE, FALSE, TRUE, Environ("", "", ""),
         {<<".env">>}, TRUE, ContentOf(q)) :
        tool \in {"deploy", "push-secrets"},
        q \in UNION {[1..k -> 1..Len(LinePool)] : k \in 0..MaxLines}}

\* -------------------------------------------------------------- shared
\* detectProjectName: stackName of config.json, else the directory name
detectProjectName == "stats"

\* strings.Trim(value, `"'`), from the left and from the right
RECURSIVE TrimLeft(_)
TrimLeft(value) ==
    IF value # <<>> /\ Head(value) \in {"\"", "'"} THEN TrimLeft(Tail(value)) ELSE value

RECURSIVE TrimRight(_)
TrimRight(value) ==
    IF value # <<>> /\ value[Len(value)] \in {"\"", "'"}
    THEN TrimRight(SubSeq(value, 1, Len(value) - 1)) ELSE value

\* an external call and how it ended
Call(op, target, outcome) == [op |-> op, target |-> target, outcome |-> outcome]

\* --------------------------------------------------------------- cmd/deploy
\* the environment asked before the flag
ResolveRegionEnvFirst(region, env) ==
    IF env["AWS_REGION"] # "" THEN env["AWS_REGION"]
    ELSE IF region # "" THEN region
    ELSE IF env["AWS_DEFAULT_REGION"] # "" THEN env["AWS_DEFAULT_REGION"]
    ELSE "us-east-1"

\* run, lines 89-98
ResolveRegion(region, env) ==
    IF region # "" THEN region
    ELSE IF env["AWS_REGION"] # "" THEN env["AWS_REGION"]
    ELSE IF env["AWS_DEFAULT_REGION"] # "" THEN env["AWS_DEFAULT_REGION"]
    ELSE "us-east-1"

\* findEnvFile: the first candidate that exists, <<>> with the error
findEnvFile(projectName, files) ==
    LET candidates ==
            << <<".env">>, <<"..", ".env">> >>
            \o (IF projectName # ""
                THEN << <<"~", DefaultConfigDir, "projects", projectName, ".env">> >>
                ELSE <<>>)
            \o << <<"~", DefaultConfigDir, ".env">> >>
        found == {i \in 1..Len(candidates) : candidates[i] \in files}
    IN IF found = {} THEN <<>>
       ELSE candidates[CHOOSE i \in found : \A j \in found : i <= j]

\* the explicit env file taken without looking whether it exists
LocateEnvFileUnchecked(envFile, projectName, files) ==
    IF envFile # <<>> THEN envFile ELSE findEnvFile(projectName, files)

\* pushSecrets, lines 187-211: the env file to read, <<>> when there is none
LocateEnvFile(envFile, projectName, files) ==
    IF envFile # <<>>
    THEN LET envPath == IF Head(envFile) # "/" /\ envFile \notin files
                           /\ (<<"..">> \o envFile) \in files
                        THEN <<"..">> \o envFile ELSE envFile
         IN IF envPath \notin files THEN <<>> ELSE envPath
    ELSE findEnvFile(projectName, files)

SecretGroup(name, description, patterns) ==
    [name |-> name, description |-> description, keys |-> EmptyMap, patterns |-> patterns]

secretGroups ==
    << SecretGroup("llm", "LLM provider API keys",
                   <<"GOOGLE_API_KEY", "GEMINI_API_KEY", "ANTHROPIC_API_KEY",
                     "CLAUDE_API_KEY", "OPENAI_API_KEY", "XAI_API_KEY", "LLM_API_KEY">>),
       SecretGroup("search", "Search provider API keys",
                   <<"SERPER_API_KEY", "SERPAPI_API_KEY">>),
       SecretGroup("config", "Configuration and observability settings",
                   <<"LLM_PROVIDER", "LLM_MODEL", "LLM_BASE_URL", "SEARCH_PROVIDER",
                     "OBSERVABILITY_ENABLED", "OBSERVABILITY_PROVIDER",
                     "OPIK_API_KEY", "OPIK_WORKSPACE", "OPIK_PROJECT",
                     "LANGFUSE_PUBLIC_KEY", "LANGFUSE_SECRET_KEY", "PHOENIX_API_KEY">>) >>

\* every key matches every pattern
MatchesAnything(key, pattern) == TRUE

\* parseEnvFile, line 305: key == pattern
Matches(key, pattern) == key = pattern

\* parseEnvFile, lines 303-313: the key put into every group that lists it
Categorize(groups, key, value) ==
    [i \in 1..Len(groups) |->
        IF \E j \in 1..Len(groups[i].patterns) : Matches(key, groups[i].patterns[j])
        THEN [groups[i] EXCEPT !.keys = MapPut(@, key, value)]
        ELSE groups[i]]

\* parseEnvFile: lines that are blank, comments or no assignment are
\* passed over, and so are empty values and `your-` placeholders
RECURSIVE parseEnvFile(_, _)
parseEnvFile(lines, groups) ==
    IF lines = <<>> THEN groups
    ELSE LET line == Head(lines)
             value == TrimRight(TrimLeft(line.value))
         IN IF \/ line.kind \notin {"assign", "export"}
               \/ value = <<>>
               \/ Head(value) = "your-"
            THEN parseEnvFile(Tail(lines), groups)
            ELSE parseEnvFile(Tail(lines), Categorize(groups, line.key, value))

\* --------------------------------------------------------- cmd/push-secrets
psResolveRegion(region, env) ==
    IF region # "" THEN region
    ELSE IF env["AWS_REGION"] # "" THEN env["AWS_REGION"]
    ELSE IF env["AWS_DEFAULT_REGION"] # "" THEN env["AWS_DEFAULT_REGION"]
    ELSE "us-east-1"

psFindEnvFile(projectName, files) ==
    LET candidates ==
            << <<".env">>, <<"..", ".env">> >>
            \o (IF projectName # ""
                THEN << <<"~", DefaultConfigDir, "projects", projectName, ".env">> >>
                ELSE <<>>)
            \o << <<"~", DefaultConfigDir, ".env">> >>
        found == {i \in 1..Len(candidates) : candidates[i] \in files}
    IN IF found = {} THEN <<>>
       ELSE candidates[CHOOSE i \in found : \A j \in found : i <= j]

psGroups ==
    << SecretGroup("llm", "LLM provider API keys",
                   <<"GOOGLE_API_KEY", "GEMINI_API_KEY", "ANTHROPIC_API_KEY",
                     "CLAUDE_API_KEY", "OPENAI_API_KEY", "XAI_API_KEY", "LLM_API_KEY">>),
       SecretGroup("search", "Search provider API keys",
                   <<"SERPER_API_KEY", "SERPAPI_API_KEY">>),
       SecretGroup("config", "Configuration and observability settings",
                   <<"LLM_PROVIDER", "LLM_MODEL", "LLM_BASE_URL", "SEARCH_PROVIDER",
                     "OBSERVABILITY_ENABLED", "OBSERVABILITY_PROVIDER",
                     "OPIK_API_KEY", "OPIK_WORKSPACE", "OPIK_PROJECT",
                     "LANGFUSE_PUBLIC_KEY", "LANGFUSE_SECRET_KEY", "PHOENIX_API_KEY">>) >>

RECURSIVE psParseEnvFile(_, _)
psParseEnvFile(lines, groups) ==
    IF lines = <<>> THEN groups
    ELSE LET line == Head(lines)
             value == TrimRight(TrimLeft(line.value))
         IN IF \/ line.kind \notin {"assign", "export"}
               \/ value = <<>>
               \/ Head(value) = "your-"
            THEN psParseEnvFile(Tail(lines), groups)
            ELSE psParseEnvFile(Tail(lines),
                    [i \in 1..Len(groups) |->
                        IF \E j \in 1..Len(groups[i].patterns) :
                              line.key = groups[i].patterns[j]
                        THEN [groups[i] EXCEPT !.keys = MapPut(@, line.key, value)]
                        ELSE groups[i]])

\* ---------------------------------------------------------- the tools run
StackIdle ==
    /\ s = None
    /\ nodes = <<>>
    /\ outputs = <<>>
    /\ pc = "idle"
    /\ agentIdx = 1
    /\ prev = None
    /\ edit = [kind |-> "none"]

Outcomes == {"ok", "error"}

InitTools ==
    /\ \E o \in Runs : opts = o
    /\ tpc = "main"
    /\ locals = [awsRegion |-> "", projectName |-> "", prefix |-> "", accountID |-> "",
                  envPath |-> <<>>, groups |-> <<>>, gi |-> 1, steps |-> <<>>]
    /\ calls = <<>>
    /\ exitCode = NoExit
    /\ StackIdle
    /\ builder = None
    /\ included = None

\* every outcome of the update taken for a success
SecretPushedWhatever(put, create) == TRUE

\* createOrUpdateSecret returns nil after an update, or after a create that
\* followed ResourceNotFoundException
SecretPushed(put, create) == put = "ok" \/ (put = "notFound" /\ create = "ok")

\* main and run of cmd/deploy up to the AWS configuration, lines 79-118
deployRun ==
    /\ opts.tool = "deploy"
    /\ tpc = "main"
    /\ locals' = [locals EXCEPT
                    !.awsRegion = ResolveRegion(opts.region, opts.env),
                    !.projectName = IF opts.project # "" THEN opts.project
                                    ELSE detectProjectName,
                    !.prefix = (IF opts.prefix = <<>> THEN "stats-agent" ELSE opts.prefix[1])]
    /\ tpc' = "LoadDefaultConfig"
    /\ UNCHANGED <<opts, calls, exitCode>>
    /\ UNCHANGED <<vars, includeVars>>

\* run, lines 120-124
LoadDefaultConfig ==
    /\ tpc = "LoadDefaultConfig"
    /\ \E outcome \in Outcomes :
         /\ calls' = Append(calls, Call("LoadDefaultConfig", <<locals.awsRegion>>, outcome))
         /\ tpc' = IF outcome = "ok" THEN "GetCallerIdentity" ELSE "exited"
         /\ exitCode' = IF outcome = "ok" THEN exitCode ELSE 1
    /\ UNCHANGED <<opts, locals>>
    /\ UNCHANGED <<vars, includeVars>>

\* run, lines 126-134
GetCallerIdentity ==
    /\ tpc = "GetCallerIdentity"
    /\ \E outcome \in Outcomes :
         /\ calls' = Append(calls, Call("GetCallerIdentity", <<>>, outcome))
         /\ tpc' = IF outcome = "ok" THEN "pushSecrets" ELSE "exited"
         /\ exitCode' = IF outcome = "ok" THEN exitCode ELSE 1
         /\ locals' = [locals EXCEPT !.accountID = IF outcome = "ok" THEN "123456789012"
                                                   ELSE @]
    /\ UNCHANGED opts
    /\ UNCHANGED <<vars, includeVars>>

\* run, lines 136-146, and pushSecrets up to its loop, lines 184-254
pushSecrets ==
    /\ tpc = "pushSecrets"
    /\ IF opts.skipSecrets
       THEN /\ tpc' = "bootstrapCDK"
            /\ UNCHANGED <<locals, exitCode>>
       ELSE LET envPath == LocateEnvFile(opts.envFile, locals.projectName, opts.files)
                started == [locals EXCEPT !.steps = Append(@, "secrets")]
            IN IF envPath = <<>>
               THEN /\ tpc' = "bootstrapCDK"
                    /\ locals' = started
                    /\ UNCHANGED exitCode
               ELSE IF envPath \notin opts.files \/ ~opts.readable
               THEN /\ tpc' = "exited"
                    /\ exitCode' = 1
                    /\ locals' = [started EXCEPT !.envPath = envPath]
               ELSE /\ tpc' = "createOrUpdateSecret"
                    /\ locals' = [started EXCEPT
                                    !.envPath = envPath,
                                    !.groups = parseEnvFile(opts.content, secretGroups),
                                    !.gi = 1]
                    /\ UNCHANGED exitCode
    /\ UNCHANGED <<opts, calls>>
    /\ UNCHANGED <<vars, includeVars>>

\* only the empty group left alone
SkipsGroupWhenEmpty(keys, dryRun) == DOMAIN keys = {}

\* createOrUpdateSecret, lines 320-340: the returns before any AWS call
SkipsGroup(keys, dryRun) == DOMAIN keys = {} \/ dryRun

\* one round of the loop of pushSecrets, lines 256-262, with
\* createOrUpdateSecret, lines 319-364
createOrUpdateSecret ==
    /\ tpc = "createOrUpdateSecret"
    /\ LET group == locals.groups[locals.gi]
           secretName == <<locals.prefix, "/", group.name>>
           next == IF locals.gi = Len(locals.groups) THEN "bootstrapCDK" ELSE tpc
       IN IF SkipsGroup(group.keys, opts.dryRun)
          THEN /\ tpc' = next
               /\ locals' = [locals EXCEPT !.gi = @ + 1]
               /\ UNCHANGED <<calls, exitCode>>
          ELSE \E put \in Outcomes \cup {"notFound"}, create \in Outcomes :
                 /\ calls' = calls
                             \o << Call("PutSecretValue", secretName, put) >>
                             \o (IF put = "notFound"
                                 THEN << Call("CreateSecret", secretName, create) >>
                                 ELSE <<>>)
                 /\ tpc' = IF SecretPushed(put, create) THEN next ELSE "exited"
                 /\ exitCode' = IF SecretPushed(put, create) THEN exitCode ELSE 1
                 /\ locals' = [locals EXCEPT
                                 !.gi = IF SecretPushed(put, create) THEN @ + 1 ELSE @]
    /\ UNCHANGED opts
    /\ UNCHANGED <<vars, includeVars>>

\* the bootstrap error made fatal
AfterBootstrapFatal(outcome) == IF outcome = "ok" THEN "deployCDK" ELSE "exited"

\* bootstrapCDK returns nothing: run goes on to the deploy step
AfterBootstrap(outcome) == "deployCDK"

\* run, lines 148-156, with bootstrapCDK, lines 367-385
bootstrapCDK ==
    /\ tpc = "bootstrapCDK"
    /\ IF opts.skipBootstrap
       THEN /\ tpc' = "deployCDK"
            /\ UNCHANGED <<locals, calls, exitCode>>
       ELSE /\ locals' = [locals EXCEPT !.steps = Append(@, "bootstrap")]
            /\ IF opts.dryRun
               THEN /\ tpc' = "deployCDK"
                    /\ UNCHANGED <<calls, exitCode>>
               ELSE \E outcome \in Outcomes :
                      /\ calls' = Append(calls,
                                    Call("cdk bootstrap",
                                         <<"aws://", locals.accountID, "/", locals.awsRegion>>,
                                         outcome))
                      /\ tpc' = AfterBootstrap(outcome)
                      /\ exitCode' = IF AfterBootstrap(outcome) = "exited" THEN 1
                                     ELSE exitCode
    /\ UNCHANGED opts
    /\ UNCHANGED <<vars, includeVars>>

\* run, lines 158-173, with deployCDK, lines 441-466
deployCDK ==
    /\ tpc = "deployCDK"
    /\ \E tidy \in Outcomes, cdk \in Outcomes :
         /\ calls' = calls \o << Call("go mod tidy", <<>>, tidy),
                                 Call(IF opts.dryRun THEN "cdk diff" ELSE "cdk deploy",
                                      <<>>, cdk) >>
         /\ exitCode' = IF opts.dryRun \/ cdk = "ok" THEN 0 ELSE 1
    /\ locals' = [locals EXCEPT !.steps = Append(@, "deploy")]
    /\ tpc' = "exited"
    /\ UNCHANGED opts
    /\ UNCHANGED <<vars, includeVars>>

\* main of cmd/push-secrets, lines 90-128, up to the call of run
psMain ==
    /\ opts.tool = "push-secrets"
    /\ tpc = "main"
    /\ LET projectName == IF opts.project # "" THEN opts.project ELSE detectProjectName
           envFile == IF Len(opts.args) >= 1 THEN opts.args[1]
                      ELSE psFindEnvFile(projectName, opts.files)
       IN /\ locals' = [locals EXCEPT
                          !.projectName = projectName,
                          !.envPath = envFile,
                          !.awsRegion = IF envFile = <<>> THEN @
                                        ELSE psResolveRegion(opts.region, opts.env),
                          !.prefix = IF envFile = <<>> THEN @ ELSE (IF opts.prefix = <<>> THEN "stats-agent" ELSE opts.prefix[1])]
          /\ tpc' = IF envFile = <<>> THEN "exited" ELSE "psRun"
          /\ exitCode' = IF envFile = <<>> THEN 1 ELSE exitCode
    /\ UNCHANGED <<opts, calls>>
    /\ UNCHANGED <<vars, includeVars>>

\* run of cmd/push-secrets up to its loop, lines 130-200
psRun ==
    /\ tpc = "psRun"
    /\ IF locals.envPath \notin opts.files \/ ~opts.readable
       THEN /\ tpc' = "exited"
            /\ exitCode' = 1
            /\ UNCHANGED <<locals, calls>>
       ELSE /\ locals' = [locals EXCEPT
                            !.groups = psParseEnvFile(opts.content, psGroups),
                            !.gi = 1]
            /\ IF opts.dryRun
               THEN /\ tpc' = "processGroup"
                    /\ UNCHANGED <<calls, exitCode>>
               ELSE \E outcome \in Outcomes :
                      /\ calls' = Append(calls,
                                    Call("LoadDefaultConfig", <<locals.awsRegion>>, outcome))
                      /\ tpc' = IF outcome = "ok" THEN "processGroup" ELSE "exited"
                      /\ exitCode' = IF outcome = "ok" THEN exitCode ELSE 1
    /\ UNCHANGED opts
    /\ UNCHANGED <<vars, includeVars>>

\* the create attempted whatever made the update fail
psAfterPutAlwaysCreate(put) == IF put = "ok" THEN "updated" ELSE "create"

\* processGroup: create only when the update failed with ResourceNotFound
psAfterPut(put) ==
    IF put = "ok" THEN "updated" ELSE IF put = "notFound" THEN "create" ELSE "failed"

\* one round of the loop of run, lines 202-218, with processGroup, 273-328
processGroup ==
    /\ tpc = "processGroup"
    /\ LET group == locals.groups[locals.gi]
           secretName == <<locals.prefix, "/", group.name>>
           last == locals.gi = Len(locals.groups)
       IN IF DOMAIN group.keys = {} \/ opts.dryRun
          THEN /\ tpc' = IF last THEN "exited" ELSE tpc
               /\ exitCode' = IF last THEN 0 ELSE exitCode
               /\ locals' = [locals EXCEPT !.gi = @ + 1]
               /\ UNCHANGED calls
          ELSE \E put \in Outcomes \cup {"notFound"}, create \in Outcomes :
                 LET after == psAfterPut(put)
                     pushed == after = "updated" \/ (after = "create" /\ create = "ok")
                 IN /\ calls' = calls
                                \o << Call("PutSecretValue", secretName, put) >>
                                \o (IF after = "create"
                                    THEN << Call("CreateSecret", secretName, create) >>
                                    ELSE <<>>)
                    /\ tpc' = IF pushed /\ ~last THEN tpc ELSE "exited"
                    /\ exitCode' = IF ~pushed THEN 1 ELSE IF last THEN 0 ELSE exitCode
                    /\ locals' = [locals EXCEPT !.gi = IF pushed THEN @ + 1 ELSE @]
    /\ UNCHANGED opts
    /\ UNCHANGED <<vars, includeVars>>

NextTools ==
    \/ deployRun
    \/ LoadDefaultConfig
    \/ GetCallerIdentity
    \/ pushSecrets
    \/ createOrUpdateSecret
    \/ bootstrapCDK
    \/ deployCDK
    \/ psMain
    \/ psRun
    \/ processGroup

SpecTools == InitTools /\ [][NextTools]_toolVars

\* ------------------------------------------------- claims about the tools
SecretOps == {"PutSecretValue", "CreateSecret"}
CdkOps == {"go mod tidy", "cdk diff", "cdk deploy"}

\* the pipeline stage an external call belongs to
StageOf(op) ==
    IF op \in SecretOps THEN 1
    ELSE IF op = "cdk bootstrap" THEN 2
    ELSE IF op \in CdkOps THEN 3 ELSE 0

StepRank(step) ==
    IF step = "secrets" THEN 1 ELSE IF step = "bootstrap" THEN 2 ELSE 3

CallsOf(ops) == {i \in DOMAIN calls : calls[i].op \in ops}

IsDeployTool == opts # None /\ opts.tool = "deploy"
IsPushSecretsTool == opts # None /\ opts.tool = "push-secrets"

\* the secret push step of the deploy tool returned an error
SecretPushFailed ==
    /\ IsDeployTool
    /\ "secrets" \in Range(locals.steps)
    /\ \/ \E i \in CallsOf(SecretOps) : calls[i].outcome = "error"
       \/ locals.envPath # <<>> /\ ~opts.readable

\* C21: the deploy tool runs the secret push, the bootstrap and the deploy
\* in that order, each over before the next starts, and when the secret
\* push fails neither of the later two runs and the exit code is not zero
C21_PipelineInOrder ==
    IsDeployTool =>
        /\ \A i, j \in DOMAIN calls :
             i < j => StageOf(calls[i].op) <= StageOf(calls[j].op)
        /\ \A i, j \in DOMAIN locals.steps :
             i < j => StepRank(locals.steps[i]) < StepRank(locals.steps[j])
        /\ SecretPushFailed =>
             /\ tpc = "exited"
             /\ exitCode = 1
             /\ locals.steps = <<"secrets">>
             /\ CallsOf({"cdk bootstrap"} \cup CdkOps) = {}

C21_WholePipelineRan ==
    /\ IsDeployTool
    /\ tpc = "exited"
    /\ locals.steps = <<"secrets", "bootstrap", "deploy">>
    /\ CallsOf(SecretOps) # {}
    /\ CallsOf({"cdk bootstrap"}) # {}
    /\ CallsOf({"cdk deploy"}) # {}

C21_PushFailedReached ==
    /\ SecretPushFailed
    /\ CallsOf({"CreateSecret"}) # {}

BootstrapFailed ==
    /\ IsDeployTool
    /\ \E i \in CallsOf({"cdk bootstrap"}) : calls[i].outcome = "error"

\* C22: a failed bootstrap never ends the deploy tool: the deploy step
\* still runs, and the exit code is the one the deploy step gives
C22_BootstrapNeverFatal ==
    BootstrapFailed =>
        /\ tpc \in {"deployCDK", "exited"}
        /\ tpc = "exited" =>
             /\ "deploy" \in Range(locals.steps)
             /\ calls[Len(calls)].op = "cdk deploy"
             /\ exitCode = IF calls[Len(calls)].outcome = "ok" THEN 0 ELSE 1

C22_DeployedAfterFailedBootstrap ==
    /\ BootstrapFailed
    /\ tpc = "exited"
    /\ exitCode = 0
    /\ CallsOf(SecretOps) # {}

IsDryRun == opts # None /\ opts.dryRun

\* C23: a dry run of the deploy tool makes no external call and ends
\* successfully whatever the AWS configuration, the caller identity lookup,
\* go mod tidy and cdk answer
C23_DryRunNeverFails ==
    IsDeployTool /\ IsDryRun /\ tpc = "exited" /\ opts.readable =>
        /\ calls = <<>>
        /\ exitCode = 0

\* the keys of an env file whose value is kept: the line is an assignment
\* and the value, its quotes cut off, is neither empty nor a placeholder
KeptKeys(content) ==
    {content[i].key : i \in {j \in DOMAIN content :
        /\ content[j].kind \in {"assign", "export"}
        /\ TrimRight(TrimLeft(content[j].value)) # <<>>
        /\ Head(TrimRight(TrimLeft(content[j].value))) # "your-"}}

Parsed == opts # None /\ locals.groups # <<>>

GroupNamed(name) ==
    CHOOSE g \in Range(locals.groups) : g.name = name

Resolved == opts # None /\ locals.awsRegion # ""

RegionChain ==
    IF opts.region # "" THEN opts.region
    ELSE IF opts.env["AWS_REGION"] # "" THEN opts.env["AWS_REGION"]
    ELSE IF opts.env["AWS_DEFAULT_REGION"] # "" THEN opts.env["AWS_DEFAULT_REGION"]
    ELSE "us-east-1"

\* the flag, then the environment, then the default, for the prefix
PrefixChain ==
    IF opts.prefix # <<>> THEN opts.prefix[1]
    ELSE IF opts.env[PrefixEnvVar] # "" THEN opts.env[PrefixEnvVar]
    ELSE "stats-agent"

\* C25 as stated: region and prefix both come from the flag, else from
\* the process environment, else from a fixed default
C25_SameChainForBoth ==
    Resolved =>
        /\ locals.awsRegion = RegionChain
        /\ locals.prefix = PrefixChain

\* C25: the region is the --region flag, else AWS_REGION, else
\* AWS_DEFAULT_REGION, else us-east-1; the prefix is the --prefix flag,
\* stats-agent when the flag is left out, whatever the environment holds
C25_RegionChainPrefixFlag ==
    Resolved =>
        /\ locals.awsRegion = RegionChain
        /\ locals.prefix = IF opts.prefix = <<>> THEN "stats-agent" ELSE opts.prefix[1]

C25_FallbacksTaken ==
    /\ Resolved
    /\ opts.region = ""
    /\ opts.env["AWS_REGION"] = ""
    /\ locals.awsRegion = "ap-south-1"
    /\ opts.prefix = <<>>
    /\ opts.env[PrefixEnvVar] = "fromenv"
    /\ locals.prefix = "stats-agent"

PushStarted == Parsed /\ ~IsDryRun

GroupSecret(g) == <<locals.prefix, "/", locals.groups[g].name>>
CallsFor(g) == {i \in CallsOf(SecretOps) : calls[i].target = GroupSecret(g)}
GroupOfCall(i) == CHOOSE g \in DOMAIN locals.groups : calls[i].target = GroupSecret(g)

\* the group was pushed: updated, or created after the update found nothing
GroupPushed(g) ==
    \E i \in CallsFor(g) :
        /\ calls[i].op = "PutSecretValue"
        /\ \/ calls[i].outcome = "ok" /\ CallsFor(g) = {i}
           \/ /\ calls[i].outcome = "notFound"
              /\ CallsFor(g) = {i, i + 1}
              /\ calls[i + 1].op = "CreateSecret"
              /\ calls[i + 1].outcome = "ok"

GroupFailed(g) == \E i \in CallsFor(g) : calls[i].outcome = "error"

\* C28: a group with keys is first updated and created only after the
\* update found no secret; any other failure ends the push with an error;
\* a group without keys causes no call; the groups go llm, search, config,
\* and at a failure the earlier groups are pushed and the later untouched
C28_UpdateThenCreate ==
    PushStarted =>
        /\ \A i \in CallsOf({"CreateSecret"}) :
             /\ i > 1
             /\ calls[i - 1].op = "PutSecretValue"
             /\ calls[i - 1].outcome = "notFound"
             /\ calls[i - 1].target = calls[i].target
        /\ \A i \in CallsOf(SecretOps) :
             calls[i].outcome = "error" =>
                /\ i = Len(calls)
                /\ tpc = "exited"
                /\ exitCode = 1
        /\ \A i, j \in CallsOf(SecretOps) :
             i < j => GroupOfCall(i) <= GroupOfCall(j)
        /\ \A g \in DOMAIN locals.groups :
             /\ DOMAIN locals.groups[g].keys = {} => CallsFor(g) = {}
             /\ g > locals.gi => CallsFor(g) = {}
             /\ g < locals.gi /\ DOMAIN locals.groups[g].keys # {} => GroupPushed(g)
             /\ g = locals.gi => CallsFor(g) = {} \/ GroupFailed(g)

C28_FailedAtSecondGroup ==
    /\ PushStarted
    /\ IsPushSecretsTool
    /\ \A g \in DOMAIN locals.groups : DOMAIN locals.groups[g].keys # {}
    /\ GroupPushed(1)
    /\ CallsOf({"CreateSecret"}) \cap CallsFor(1) # {}
    /\ GroupFailed(2)
    /\ CallsFor(3) = {}
    /\ exitCode = 1

\* no env file for the deploy tool: the --env path is nowhere, or no
\* candidate of the search exists
NoEnvFileGiven ==
    /\ opts.envFile # <<>>
    /\ opts.envFile \notin opts.files
    /\ Head(opts.envFile) = "/" \/ (<<"..">> \o opts.envFile) \notin opts.files

NoEnvFileDetected ==
    opts.files \cap { <<".env">>, <<"..", ".env">>, <<"~", ".plexusone", ".env">>,
                      <<"~", ".plexusone", "projects", locals.projectName, ".env">> } = {}

\* C29: without an env file the deploy tool pushes nothing, takes the step
\* for done and goes on to bootstrap and deploy; push-secrets, finding no
\* env file by itself, exits with a code that is not zero
C29_NoEnvFile ==
    /\ /\ IsDeployTool
       /\ "secrets" \in Range(locals.steps)
       /\ NoEnvFileGiven \/ (opts.envFile = <<>> /\ NoEnvFileDetected)
       => /\ CallsOf(SecretOps) = {}
          /\ tpc \in {"bootstrapCDK", "deployCDK", "exited"}
          /\ tpc \in {"deployCDK", "exited"} /\ ~opts.skipBootstrap
               => "bootstrap" \in Range(locals.steps)
          /\ tpc = "exited"
               => /\ "deploy" \in Range(locals.steps)
                  /\ calls[Len(calls)].op \in {"cdk diff", "cdk deploy"}
                  /\ exitCode = IF IsDryRun \/ calls[Len(calls)].outcome = "ok"
                                THEN 0 ELSE 1
    /\ /\ IsPushSecretsTool
       /\ tpc # "main"
       /\ opts.args = <<>>
       /\ NoEnvFileDetected
       => /\ tpc = "exited"
          /\ exitCode = 1
          /\ calls = <<>>

C29_DeployedWithoutEnvFile ==
    /\ IsDeployTool
    /\ NoEnvFileGiven
    /\ opts.files # {}
    /\ locals.steps = <<"secrets", "bootstrap", "deploy">>
    /\ CallsOf(SecretOps) = {}
    /\ CallsOf({"cdk deploy"}) # {}
    /\ exitCode = 0

C29_PushSecretsWithoutEnvFile ==
    /\ IsPushSecretsTool
    /\ opts.args = <<>>
    /\ NoEnvFileDetected
    /\ exitCode = 1

\* C30: a dry run of either tool issues no PutSecretValue, CreateSecret,
\* cdk bootstrap or cdk deploy, and its deploy step ends well whatever
\* cdk diff returns
C30_DryRunChangesNothing ==
    IsDryRun =>
        /\ CallsOf({"PutSecretValue", "CreateSecret", "cdk bootstrap", "cdk deploy"}) = {}
        /\ IsPushSecretsTool => calls = <<>>
        /\ IsDeployTool /\ "deploy" \in Range(locals.steps) =>
             /\ tpc = "exited"
             /\ exitCode = 0

C30_DryRunWithFailedDiff ==
    /\ IsDryRun
    /\ IsDeployTool
    /\ locals.steps = <<"secrets", "bootstrap", "deploy">>
    /\ \A g \in DOMAIN locals.groups : DOMAIN locals.groups[g].keys # {}
    /\ \E i \in CallsOf({"cdk diff"}) : calls[i].outcome = "error"
    /\ exitCode = 0

\* ================================================ the CfnInclude stack
ParamNames == {"Environment", "Stage"}
ParamValues == {"production", "staging"}
TagKeys == {"team", "env"}
TagValues == {"core", "edge"}

\* the maps a caller can hand over; a nil map is the map without keys
MapsOver(keys, values) == UNION {[d -> values] : d \in SUBSET keys}

\* for k, v := range src { dst[k] = v }
MapMerge(dst, src) ==
    [k \in (DOMAIN dst) \cup (DOMAIN src) |-> IF k \in DOMAIN src THEN src[k] ELSE dst[k]]

CfnIncludeConfig(stackName, templateFile, parameters, preserve, tags) ==
    [StackName |-> stackName, TemplateFile |-> templateFile, Parameters |-> parameters,
     PreserveLogicalIds |-> preserve, Tags |-> tags]

\* the composite literals a caller can pass to NewCfnIncludeStack: a
\* field left out has Go's zero value; `set` keeps whether the caller
\* wrote PreserveLogicalIds (or called WithPreserveLogicalIds)
LiteralConfigs ==
    {[config |-> CfnIncludeConfig("my-agents", "agentcore-stack.yaml", parameters,
                                  preserve = "true", tags),
      set |-> preserve # "unset"] :
        parameters \in MapsOver(ParamNames, ParamValues),
        preserve \in {"unset", "true", "false"},
        tags \in MapsOver(TagKeys, TagValues)}

\* cloudformationinclude.NewCfnInclude: the template of the file with the
\* parameter overrides of the props put in place of the template's values
NewCfnInclude(templateFile, preserveLogicalIds, parameters) ==
    [TemplateFile |-> templateFile,
     PreserveLogicalIds |-> preserveLogicalIds,
     ParameterValues |-> [n \in ParamNames |->
                            IF n \in DOMAIN parameters THEN parameters[n]
                            ELSE "dev"]]

\* preserveLogicalIds of NewCfnIncludeStack
IncludePreserveLogicalIds(config) ==
    LET preserveLogicalIds == TRUE
    IN IF ~config.PreserveLogicalIds THEN config.PreserveLogicalIds
       ELSE preserveLogicalIds

NewCfnIncludeStack(config) ==
    [StackName |-> config.StackName,
     Tags |-> [k \in DOMAIN config.Tags |-> config.Tags[k]],
     Template |-> NewCfnInclude(config.TemplateFile,
                                IncludePreserveLogicalIds(config),
                                EmptyMap)]

InitInclude ==
    /\ builder = None
    /\ included = None
    /\ StackIdle
    /\ ToolsIdle

\* a direct call of NewCfnIncludeStack with a composite literal
IncludeLiteral ==
    /\ builder = None
    /\ included = None
    /\ \E c \in LiteralConfigs :
         /\ builder' = c
         /\ included' = NewCfnIncludeStack(c.config)
    /\ UNCHANGED <<vars, toolVars>>

NewCfnIncludeBuilder ==
    /\ builder = None
    /\ included = None
    /\ builder' = [config |-> CfnIncludeConfig("my-agents", "agentcore-stack.yaml",
                                                EmptyMap, TRUE, EmptyMap),
                    set |-> FALSE]
    /\ UNCHANGED included
    /\ UNCHANGED <<vars, toolVars>>

WithParameter ==
    /\ builder # None
    /\ included = None
    /\ \E name \in ParamNames, value \in ParamValues :
         builder' = [builder EXCEPT !.config.Parameters = MapPut(@, name, value)]
    /\ UNCHANGED included
    /\ UNCHANGED <<vars, toolVars>>

WithParameters ==
    /\ builder # None
    /\ included = None
    /\ \E params \in MapsOver(ParamNames, ParamValues) :
         builder' = [builder EXCEPT !.config.Parameters = MapMerge(@, params)]
    /\ UNCHANGED included
    /\ UNCHANGED <<vars, toolVars>>

WithTag ==
    /\ builder # None
    /\ included = None
    /\ \E key \in TagKeys, value \in TagValues :
         builder' = [builder EXCEPT !.config.Tags = MapPut(@, key, value)]
    /\ UNCHANGED included
    /\ UNCHANGED <<vars, toolVars>>

WithTags ==
    /\ builder # None
    /\ included = None
    /\ \E tags \in MapsOver(TagKeys, TagValues) :
         builder' = [builder EXCEPT !.config.Tags = MapMerge(@, tags)]
    /\ UNCHANGED included
    /\ UNCHANGED <<vars, toolVars>>

WithPreserveLogicalIds ==
    /\ builder # None
    /\ included = None
    /\ \E preserve \in BOOLEAN :
         builder' = [builder EXCEPT !.config.PreserveLogicalIds = preserve,
                                    !.set = TRUE]
    /\ UNCHANGED included
    /\ UNCHANGED <<vars, toolVars>>

Build ==
    /\ builder # None
    /\ included = None
    /\ included' = NewCfnIncludeStack(builder.config)
    /\ UNCHANGED builder
    /\ UNCHANGED <<vars, toolVars>>

NextInclude ==
    \/ IncludeLiteral
    \/ NewCfnIncludeBuilder
    \/ WithParameter
    \/ WithParameters
    \/ WithTag
    \/ WithTags
    \/ WithPreserveLogicalIds
    \/ Build

SpecInclude == InitInclude /\ [][NextInclude]_includeVars

Included == builder # None /\ included # None

\* C26: a configuration that does not set PreserveLogicalIds is included
\* with the logical ids preserved; they are not preserved only when the
\* caller asked for that
C26_PreserveByDefault ==
    Included =>
        /\ ~builder.set => included.Template.PreserveLogicalIds
        /\ ~included.Template.PreserveLogicalIds =>
             builder.set /\ ~builder.config.PreserveLogicalIds

\* what the code does in place of C26: the flag of the template is the
\* field of the configuration, false when a literal leaves it out
IncludePreservesAsConfigured ==
    Included => included.Template.PreserveLogicalIds = builder.config.PreserveLogicalIds

\* C27: every parameter override of the configuration is the value of
\* that parameter in the included template
C27_OverridesApplied ==
    Included =>
        \A n \in DOMAIN builder.config.Parameters :
            included.Template.ParameterValues[n] = builder.config.Parameters[n]

\* what the code does in place of C27: the template keeps its own values
IncludeIgnoresParameters ==
    Included => \A n \in ParamNames : included.Template.ParameterValues[n] = "dev"

BuiltWithOverrides ==
    /\ Included
    /\ DOMAIN builder.config.Parameters = ParamNames
    /\ DOMAIN builder.config.Tags # {}
    /\ builder.set

====
